---- MODULE Spec2Model ----
(***************************************************************************)
(* The lecture-processing pipeline: the in-memory job queue of JobRunner,  *)
(* the per-job stage sequence (transcribe, generate, synthesise) with its  *)
(* status writes to the lecture record, and the stub adapters.             *)
(*                                                                         *)
(* Text is a sequence of one-character strings, so that trim, length and   *)
(* substring are computed as the code computes them.  Error messages are   *)
(* strings.  Times are whole seconds.                                      *)
(***************************************************************************)
EXTENDS Integers, Sequences, FiniteSets, TLC

\* ------------------------------------------------------------------ bounds
\* Number of enqueue calls explored in every deployment with every choice of
\* options (specification Spec).
MaxJobs == 1

\* Number of enqueue calls explored in the default deployment, so that several
\* jobs wait in the queue at once (specification SpecBurst).
MaxBurst == 3

\* Number of process requests explored (specification SpecRoute).
MaxRequests == 2

\* The wall clock is followed up to this reading.
MaxClock == 2

\* Transcripts handed to the stub generator directly have up to this many segments.
MaxSegments == 25

\* --------------------------------------------------------- program literals
\* 'STT (Speech-to-Text) is not configur...' (stt.ts:35)
StubSegmentText1 ==
  <<"S", "T", "T", " ", "(", "S", "p", "e", "e", "c", "h", "-", "t", "o", "-", "T", "e", "x",
    "t", ")", " ", "i", "s", " ", "n", "o", "t", " ", "c", "o", "n", "f", "i", "g", "u", "r",
    "e", "d", ".", " ", "P", "l", "e", "a", "s", "e", " ", "a", "d", "d", " ", "A", "P", "I",
    " ", "k", "e", "y", "s", " ", "f", "o", "r", " ", "a", " ", "r", "e", "a", "l", " ", "S",
    "T", "T", " ", "p", "r", "o", "v", "i", "d", "e", "r", ".">>

\* 'This is a placeholder transcript. In...' (stt.ts:40)
StubSegmentText2 ==
  <<"T", "h", "i", "s", " ", "i", "s", " ", "a", " ", "p", "l", "a", "c", "e", "h", "o", "l",
    "d", "e", "r", " ", "t", "r", "a", "n", "s", "c", "r", "i", "p", "t", ".", " ", "I", "n",
    " ", "p", "r", "o", "d", "u", "c", "t", "i", "o", "n", ",", " ", "t", "h", "i", "s", " ",
    "w", "o", "u", "l", "d", " ", "c", "o", "n", "t", "a", "i", "n", " ", "t", "h", "e", " ",
    "a", "c", "t", "u", "a", "l", " ", "t", "r", "a", "n", "s", "c", "r", "i", "p", "t", "i",
    "o", "n", " ", "o", "f", " ", "t", "h", "e", " ", "l", "e", "c", "t", "u", "r", "e", " ",
    "a", "u", "d", "i", "o", ".">>

\* 'To enable real transcription, config...' (stt.ts:45)
StubSegmentText3 ==
  <<"T", "o", " ", "e", "n", "a", "b", "l", "e", " ", "r", "e", "a", "l", " ", "t", "r", "a",
    "n", "s", "c", "r", "i", "p", "t", "i", "o", "n", ",", " ", "c", "o", "n", "f", "i", "g",
    "u", "r", "e", " ", "y", "o", "u", "r", " ", "S", "T", "T", " ", "p", "r", "o", "v", "i",
    "d", "e", "r", " ", "A", "P", "I", " ", "k", "e", "y", "s", " ", "i", "n", " ", "t", "h",
    "e", " ", "e", "n", "v", "i", "r", "o", "n", "m", "e", "n", "t", " ", "v", "a", "r", "i",
    "a", "b", "l", "e", "s", ".">>

\* '# Lecture Notes\n' (generator.ts:77)
ShortNotesHeader ==
  <<"#", " ", "L", "e", "c", "t", "u", "r", "e", " ", "N", "o", "t", "e", "s", "\n">>

\* '- ' (generator.ts:81)
BulletPrefix ==
  <<"-", " ">>

\* '# Detailed Lecture Notes\n' (generator.ts:90)
DetailedNotesHeader ==
  <<"#", " ", "D", "e", "t", "a", "i", "l", "e", "d", " ", "L", "e", "c", "t", "u", "r", "e",
    " ", "N", "o", "t", "e", "s", "\n">>

\* '*Generated with ' (generator.ts:91)
GeneratedWith ==
  <<"*", "G", "e", "n", "e", "r", "a", "t", "e", "d", " ", "w", "i", "t", "h", " ">>

\* ' tone*\n' (generator.ts:91)
ToneSuffix ==
  <<" ", "t", "o", "n", "e", "*", "\n">>

\* 'default' (generator.ts:91)
DefaultTone ==
  <<"d", "e", "f", "a", "u", "l", "t">>

\* '\n## Section ' (generator.ts:101)
SectionPrefix ==
  <<"\n", "#", "#", " ", "S", "e", "c", "t", "i", "o", "n", " ">>

\* 'Key Point ' (generator.ts:121)
KeyPointPrefix ==
  <<"K", "e", "y", " ", "P", "o", "i", "n", "t", " ">>

\* 'Based on the lecture content around ' (generator.ts:138)
QuestionPrefix ==
  <<"B", "a", "s", "e", "d", " ", "o", "n", " ", "t", "h", "e", " ", "l", "e", "c", "t", "u",
    "r", "e", " ", "c", "o", "n", "t", "e", "n", "t", " ", "a", "r", "o", "u", "n", "d", " ">>

\* ', what is the main point?' (generator.ts:138)
QuestionSuffix ==
  <<",", " ", "w", "h", "a", "t", " ", "i", "s", " ", "t", "h", "e", " ", "m", "a", "i", "n",
    " ", "p", "o", "i", "n", "t", "?">>

\* '...' (generator.ts:140)
Ellipsis ==
  <<".", ".", ".">>

\* 'Option B (placeholder)' (generator.ts:141)
OptionB ==
  <<"O", "p", "t", "i", "o", "n", " ", "B", " ", "(", "p", "l", "a", "c", "e", "h", "o", "l",
    "d", "e", "r", ")">>

\* 'Option C (placeholder)' (generator.ts:142)
OptionC ==
  <<"O", "p", "t", "i", "o", "n", " ", "C", " ", "(", "p", "l", "a", "c", "e", "h", "o", "l",
    "d", "e", "r", ")">>

\* 'Option D (placeholder)' (generator.ts:143)
OptionD ==
  <<"O", "p", "t", "i", "o", "n", " ", "D", " ", "(", "p", "l", "a", "c", "e", "h", "o", "l",
    "d", "e", "r", ")">>

\* 'multiple_choice' (generator.ts:137)
MultipleChoice ==
  <<"m", "u", "l", "t", "i", "p", "l", "e", "_", "c", "h", "o", "i", "c", "e">>

\* '[INTRO MUSIC]' (generator.ts:155)
IntroMusic ==
  <<"[", "I", "N", "T", "R", "O", " ", "M", "U", "S", "I", "C", "]">>

\* 'Welcome to today's lecture recap. Th...' (generator.ts:157)
WelcomePrefix ==
  <<"W", "e", "l", "c", "o", "m", "e", " ", "t", "o", " ", "t", "o", "d", "a", "y", "'", "s",
    " ", "l", "e", "c", "t", "u", "r", "e", " ", "r", "e", "c", "a", "p", ".", " ", "T", "h",
    "i", "s", " ", "i", "s", " ", "a", " ">>

\* ' summary of the key points covered.' (generator.ts:157)
WelcomeSuffix ==
  <<" ", "s", "u", "m", "m", "a", "r", "y", " ", "o", "f", " ", "t", "h", "e", " ", "k", "e",
    "y", " ", "p", "o", "i", "n", "t", "s", " ", "c", "o", "v", "e", "r", "e", "d", ".">>

\* 'friendly' (generator.ts:157)
FriendlyTone ==
  <<"f", "r", "i", "e", "n", "d", "l", "y">>

\* '[MAIN CONTENT]' (generator.ts:159)
MainContent ==
  <<"[", "M", "A", "I", "N", " ", "C", "O", "N", "T", "E", "N", "T", "]">>

\* '[OUTRO]' (generator.ts:172)
Outro ==
  <<"[", "O", "U", "T", "R", "O", "]">>

\* 'That wraps up today's recap. Thanks ...' (generator.ts:174)
OutroLine ==
  <<"T", "h", "a", "t", " ", "w", "r", "a", "p", "s", " ", "u", "p", " ", "t", "o", "d", "a",
    "y", "'", "s", " ", "r", "e", "c", "a", "p", ".", " ", "T", "h", "a", "n", "k", "s", " ",
    "f", "o", "r", " ", "l", "i", "s", "t", "e", "n", "i", "n", "g", ",", " ", "a", "n", "d",
    " ", "s", "e", "e", " ", "y", "o", "u", " ", "n", "e", "x", "t", " ", "t", "i", "m", "e",
    "!">>

\* '[OUTRO MUSIC]' (generator.ts:176)
OutroMusic ==
  <<"[", "O", "U", "T", "R", "O", " ", "M", "U", "S", "I", "C", "]">>

\* 'formal' (generator.ts:9)
FormalTone ==
  <<"f", "o", "r", "m", "a", "l">>

\* ------------------------------------------------------------ pure helpers
\* An optional value (undefined / null in the source): None or Some(v).
None == <<>>

Some(v) == <<v>>

\* Characters String.prototype.trim removes.
WhiteSpace == {" ", "\n", "\t"}

Digits == <<"0", "1", "2", "3", "4", "5", "6", "7", "8", "9">>

RECURSIVE NumToString(_)
\* Number.prototype.toString for a natural number.
NumToString(n) ==
  IF n < 10 THEN <<Digits[n + 1]>>
  ELSE NumToString(n \div 10) \o <<Digits[(n % 10) + 1]>>

\* secs.toString().padStart(2, '0')
PadWidth == 2

RECURSIVE PadStart(_)
PadStart(s) ==
  IF Len(s) < PadWidth THEN PadStart(<<"0">> \o s) ELSE s

SecondsPerMinute == 60

\* formatTimecode: `${mins}:${secs padded to two digits}`
formatTimecode(seconds) ==
  LET mins == seconds \div SecondsPerMinute
      secs == seconds % SecondsPerMinute
  IN  NumToString(mins) \o <<":">> \o PadStart(NumToString(secs))

\* formatTimeRange: `(${start}–${end})`
formatTimeRange(start, end) ==
  <<"(">> \o formatTimecode(start) \o <<"EN_DASH">> \o formatTimecode(end) \o <<")">>

RECURSIVE TrimStart(_)
TrimStart(s) ==
  IF s # <<>> /\ Head(s) \in WhiteSpace THEN TrimStart(Tail(s)) ELSE s

RECURSIVE TrimEnd(_)
TrimEnd(s) ==
  IF s # <<>> /\ s[Len(s)] \in WhiteSpace THEN TrimEnd(SubSeq(s, 1, Len(s) - 1)) ELSE s

\* String.prototype.trim
Trim(s) == TrimEnd(TrimStart(s))

\* String.prototype.substring(0, n)
Substring0(s, n) == SubSeq(s, 1, IF Len(s) < n THEN Len(s) ELSE n)

\* Array.prototype.slice(0, n)
Slice0(xs, n) == SubSeq(xs, 1, IF Len(xs) < n THEN Len(xs) ELSE n)

RECURSIVE Join(_, _)
\* Array.prototype.join(sep) on an array of strings
Join(lines, sep) ==
  IF lines = <<>> THEN <<>>
  ELSE IF Len(lines) = 1 THEN lines[1]
  ELSE lines[1] \o sep \o Join(Tail(lines), sep)

RECURSIVE Flatten(_)
\* The concatenation of the arrays pushed in turn.
Flatten(xss) ==
  IF xss = <<>> THEN <<>> ELSE Head(xss) \o Flatten(Tail(xss))

\* a || b on strings: the empty string is falsy, and so is a missing one,
\* which is written <<>> as well.
OrElse(a, b) == IF a # <<>> THEN a ELSE b

\* Truthiness of an optional string: undefined and '' are falsy.
TruthyText(opt) == opt # None /\ Len(opt[1]) > 0

\* Truthiness of an optional object: only undefined is falsy.
TruthyObject(opt) == opt # None

\* ------------------------------------------------------------ stub adapters
\* Variant of StubTranscribe: the language is read off the audio path.
StubTranscribeByPath(audioPath) ==
  [language |-> IF audioPath = <<"audio", "CISC101", 1>> THEN "en" ELSE "und",
   segments |-> << [start |-> 0,  end |-> 5,  text |-> StubSegmentText1],
                   [start |-> 5,  end |-> 10, text |-> StubSegmentText2],
                   [start |-> 10, end |-> 15, text |-> StubSegmentText3] >>]

\* StubSTTProvider.transcribe: the fixed three-segment transcript, whatever
\* the audio path.
StubTranscribe(audioPath) ==
  [language |-> "en",
   segments |-> << [start |-> 0,  end |-> 5,  text |-> StubSegmentText1],
                   [start |-> 5,  end |-> 10, text |-> StubSegmentText2],
                   [start |-> 10, end |-> 15, text |-> StubSegmentText3] >>]

\* Variant of generateShortNotes: a bullet is pushed for every segment.
generateShortNotesKeepsEmpty(transcript) ==
  LET segs == transcript.segments
      bullet(seg) ==
        << BulletPrefix \o Trim(seg.text) \o <<" ">>
             \o formatTimeRange(seg.start, seg.end) >>
      lines == <<ShortNotesHeader>>
                 \o Flatten([i \in 1..Len(segs) |-> bullet(segs[i])])
  IN  Join(lines, <<"\n">>)

\* StubGenerator.generateShortNotes
generateShortNotes(transcript) ==
  LET segs == transcript.segments
      bullet(seg) ==
        IF Trim(seg.text) # <<>>
        THEN << BulletPrefix \o Trim(seg.text) \o <<" ">>
                  \o formatTimeRange(seg.start, seg.end) >>
        ELSE <<>>
      lines == <<ShortNotesHeader>>
                 \o Flatten([i \in 1..Len(segs) |-> bullet(segs[i])])
  IN  Join(lines, <<"\n">>)

sectionSize == 10

\* Variant of generateDetailedNotes: only full windows of sectionSize segments
\* become sections.
generateDetailedNotesFullWindows(transcript, prefs) ==
  LET segs == transcript.segments
      n == Len(segs)
      nSections == n \div sectionSize
      para(seg) ==
        IF Trim(seg.text) # <<>>
        THEN << Trim(seg.text) \o <<" ">>
                  \o formatTimeRange(seg.start, seg.end) \o <<"\n">> >>
        ELSE <<>>
      sectionLines(k) ==
        LET i == (k - 1) * sectionSize
            section == SubSeq(segs, i + 1, i + sectionSize)
            startTime == section[1].start
            endTime == section[Len(section)].end
        IN  << SectionPrefix \o NumToString((i \div sectionSize) + 1) \o <<" ">>
                 \o formatTimeRange(startTime, endTime) \o <<"\n">> >>
              \o Flatten([j \in 1..Len(section) |-> para(section[j])])
      lines == << DetailedNotesHeader,
                  GeneratedWith \o OrElse(prefs.tone, DefaultTone) \o ToneSuffix >>
                 \o Flatten([k \in 1..nSections |-> sectionLines(k)])
  IN  Join(lines, <<"\n">>)

\* StubGenerator.generateDetailedNotes
generateDetailedNotes(transcript, prefs) ==
  LET segs == transcript.segments
      n == Len(segs)
      nSections == (n + sectionSize - 1) \div sectionSize
      para(seg) ==
        IF Trim(seg.text) # <<>>
        THEN << Trim(seg.text) \o <<" ">>
                  \o formatTimeRange(seg.start, seg.end) \o <<"\n">> >>
        ELSE <<>>
      sectionLines(k) ==
        LET i == (k - 1) * sectionSize
            last == IF i + sectionSize < n THEN i + sectionSize ELSE n
            section == SubSeq(segs, i + 1, last)
            startTime == section[1].start
            endTime == section[Len(section)].end
        IN  << SectionPrefix \o NumToString((i \div sectionSize) + 1) \o <<" ">>
                 \o formatTimeRange(startTime, endTime) \o <<"\n">> >>
              \o Flatten([j \in 1..Len(section) |-> para(section[j])])
      lines == << DetailedNotesHeader,
                  GeneratedWith \o OrElse(prefs.tone, DefaultTone) \o ToneSuffix >>
                 \o Flatten([k \in 1..nSections |-> sectionLines(k)])
  IN  Join(lines, <<"\n">>)

FlashcardMinLength == 20
MaxFlashcards == 5

\* StubGenerator.generateFlashcards
generateFlashcards(transcript) ==
  LET long(seg) == Len(Trim(seg.text)) > FlashcardMinLength
      segments == Slice0(SelectSeq(transcript.segments, long), MaxFlashcards)
      flashcards ==
        [idx \in 1..Len(segments) |->
           [id |-> idx,
            front |-> KeyPointPrefix \o NumToString(idx),
            back |-> Trim(segments[idx].text),
            timestamp |-> formatTimeRange(segments[idx].start, segments[idx].end)]]
  IN  [flashcards |-> flashcards, total |-> Len(flashcards)]

QuizMinLength == 30
MaxQuestions == 3
OptionLength == 50

\* StubGenerator.generateQuiz
generateQuiz(transcript) ==
  LET long(seg) == Len(Trim(seg.text)) > QuizMinLength
      segments == Slice0(SelectSeq(transcript.segments, long), MaxQuestions)
      questions ==
        [idx \in 1..Len(segments) |->
           [id |-> idx,
            type |-> MultipleChoice,
            question |-> QuestionPrefix
                           \o formatTimeRange(segments[idx].start, segments[idx].end)
                           \o QuestionSuffix,
            options |-> << Substring0(Trim(segments[idx].text), OptionLength) \o Ellipsis,
                           OptionB, OptionC, OptionD >>,
            correct |-> 0,
            explanation |-> Trim(segments[idx].text)]]
  IN  [questions |-> questions, total |-> Len(questions)]

SummaryLength == 500

\* StubGenerator.generatePodcastScript
generatePodcastScript(transcript, prefs) ==
  LET segs == transcript.segments
      trimmed == [i \in 1..Len(segs) |-> Trim(segs[i].text)]
      nonEmpty(t) == Len(t) > 0
      summary == Substring0(Join(SelectSeq(trimmed, nonEmpty), <<" ">>), SummaryLength)
      lines == << IntroMusic, <<>>,
                  WelcomePrefix \o OrElse(prefs.tone, FriendlyTone) \o WelcomeSuffix, <<>>,
                  MainContent, <<>>,
                  summary, <<>>,
                  Outro, <<>>,
                  OutroLine, <<>>,
                  OutroMusic >>
  IN  Join(lines, <<"\n">>)

\* StubGenerator.generateNotes: only the requested documents are produced.
StubGenerateNotes(transcript, options) ==
  [notesShort    |-> IF options.notesShort THEN Some(generateShortNotes(transcript)) ELSE None,
   notesDetailed |-> IF options.notesDetailed
                     THEN Some(generateDetailedNotes(transcript, options.prefs)) ELSE None,
   flashcards    |-> IF options.flashcards THEN Some(generateFlashcards(transcript)) ELSE None,
   quiz          |-> IF options.quiz THEN Some(generateQuiz(transcript)) ELSE None,
   podcastScript |-> IF options.podcastScript
                     THEN Some(generatePodcastScript(transcript, options.prefs)) ELSE None]

\* ------------------------------------------------------------ the environment
\* Lecture records of the store (prisma.lecture), by id.
LectureIds == {1, 2}

\* lecture.course.code, as the process route passes it to enqueue.
CourseCodeOf(lectureId) == IF lectureId = 1 THEN "CISC101" ELSE "CISC204"

\* lecture.audioPath
AudioPathOf(lectureId) == <<"audio", CourseCodeOf(lectureId), lectureId>>

\* getOutputDir + path.join: one file per (course, lecture, filename).  Course
\* codes are drawn already sanitized.
OutputPath(courseCode, lectureId, filename) == <<"outputs", courseCode, lectureId, filename>>

FileNames ==
  {"transcript.json", "transcript.txt", "notes_short.md", "notes_detailed.md",
   "flashcards.json", "quiz.json", "podcast_script.txt", "podcast_audio.mp3"}

FilePaths == {OutputPath(CourseCodeOf(l), l, f) : l \in LectureIds, f \in FileNames}

\* JSON.stringify(data, null, 2) and JSON.parse: the serialized form of a value.
JsonStringify(data) == [json |-> data]

JsonParse(content) == content.json

\* config: which credentials are set ('' when the variable is unset).  Four
\* deployments: nothing configured; everything configured; ElevenLabs key
\* without a default voice, Gemini for generation; OpenAI only, with a default
\* voice but no ElevenLabs key.
ConfigChoices ==
  {[elevenLabsApiKey |-> "", elevenLabsVoiceId |-> "", openaiApiKey |-> "", geminiApiKey |-> ""],
   [elevenLabsApiKey |-> "xi-key", elevenLabsVoiceId |-> "cfg-voice", openaiApiKey |-> "sk-key",
    geminiApiKey |-> "g-key"],
   [elevenLabsApiKey |-> "xi-key", elevenLabsVoiceId |-> "", openaiApiKey |-> "",
    geminiApiKey |-> "g-key"],
   [elevenLabsApiKey |-> "", elevenLabsVoiceId |-> "cfg-voice", openaiApiKey |-> "sk-key",
    geminiApiKey |-> ""]}

\* Values a provider call may throw: an Error with a message (possibly
\* empty), or a value that is not an Error.
Thrown ==
  {[isError |-> TRUE, message |-> "429 Too Many Requests"],
   [isError |-> TRUE, message |-> ""],
   [isError |-> FALSE, message |-> ""]}

\* What a failing file operation (fs.readFile, fs.writeFile, JSON.parse) throws.
FsErrors == {[isError |-> TRUE, message |-> "ENOSPC: no space left on device"]}

\* error instanceof Error ? error.message : 'Unknown error'
ErrorMessageOf(error) == IF error.isError THEN error.message ELSE "Unknown error"

\* Variant of SttError: the error rethrown as it was caught.
SttErrorBare(error) == [isError |-> TRUE, message |-> ErrorMessageOf(error)]

\* transcribeAudio's catch: new Error(`STT transcription failed: ${...}`)
SttError(error) ==
  [isError |-> TRUE, message |-> "STT transcription failed: " \o ErrorMessageOf(error)]

\* What ElevenLabsSTTProvider.transcribe returns: one segment spanning [0,0]
\* holding the whole text (never empty: text || JSON.stringify(result)).
ProviderTranscripts ==
  {[language |-> "en",
    segments |-> <<[start |-> 0, end |-> 0, text |-> <<" ", "h", "i", " ">>]>>]}

\* The five derivative documents, in the order generateOutputs saves them.
DocKinds == <<"notesShort", "notesDetailed", "flashcards", "quiz", "podcastScript">>

NumDocKinds == Len(DocKinds)

IsTextKind(kind) == kind \in {"notesShort", "notesDetailed", "podcastScript"}

FileNameOf(kind) ==
  CASE kind = "notesShort" -> "notes_short.md"
    [] kind = "notesDetailed" -> "notes_detailed.md"
    [] kind = "flashcards" -> "flashcards.json"
    [] kind = "quiz" -> "quiz.json"
    [] kind = "podcastScript" -> "podcast_script.txt"

PathFieldOf(kind) ==
  CASE kind = "notesShort" -> "notesShortMdPath"
    [] kind = "notesDetailed" -> "notesDetailedMdPath"
    [] kind = "flashcards" -> "flashcardsJsonPath"
    [] kind = "quiz" -> "quizJsonPath"
    [] kind = "podcastScript" -> "podcastScriptPath"

\* if (outputs.<kind>): '' and undefined are falsy, any object is truthy.
Produced(outputs, kind) ==
  IF IsTextKind(kind) THEN TruthyText(outputs[kind]) ELSE TruthyObject(outputs[kind])

\* A document of the LLM service (the Python summarizer), distinct from any
\* stub document.
LlmText == <<"l", "l", "m">>

LlmObject == [llm |-> TRUE]

\* What the LLM service may resolve with for the given options: every
\* requested document; or the same without a script; or with an empty script.
LlmResults(options) ==
  LET full ==
        [notesShort    |-> IF options.notesShort THEN Some(LlmText) ELSE None,
         notesDetailed |-> IF options.notesDetailed THEN Some(LlmText) ELSE None,
         flashcards    |-> IF options.flashcards THEN Some(LlmObject) ELSE None,
         quiz          |-> IF options.quiz THEN Some(LlmObject) ELSE None,
         podcastScript |-> IF options.podcastScript THEN Some(LlmText) ELSE None]
  IN  {full, [full EXCEPT !.podcastScript = None], [full EXCEPT !.podcastScript = Some(<<>>)]}

\* Options a caller may pass with a job.
GenerateOptionChoices ==
  {[notesShort |-> TRUE, notesDetailed |-> TRUE, flashcards |-> TRUE, quiz |-> TRUE,
    podcastScript |-> FALSE, prefs |-> [tone |-> FormalTone]],
   [notesShort |-> FALSE, notesDetailed |-> FALSE, flashcards |-> FALSE, quiz |-> FALSE,
    podcastScript |-> TRUE, prefs |-> [tone |-> <<>>]]}

TtsOptionChoices ==
  {[enabled |-> FALSE, voiceId |-> ""],
   [enabled |-> TRUE, voiceId |-> ""],
   [enabled |-> TRUE, voiceId |-> "job-voice"]}

\* Enqueue calls are numbered in order; a job's id is the number of its call.
JobIds ==
  1..(IF MaxJobs > MaxBurst /\ MaxJobs > MaxRequests THEN MaxJobs
      ELSE IF MaxBurst > MaxRequests THEN MaxBurst ELSE MaxRequests)

\* Process requests are numbered in the order their handlers start.
RequestIds == 1..MaxRequests

\* ------------------------------------------------------------------- state
VARIABLES
  config,      \* the process configuration, fixed at start
  queue,       \* JobRunner.queue
  processing,  \* JobRunner.processing
  lecture,     \* the lecture records of the store
  files,       \* the artifact store: path -> content
  loop,        \* per processQueue invocation: where it is suspended, and its locals
  enqueued,    \* number of enqueue calls so far (history)
  log,         \* the status writes that have landed, in order (history)
  trace,       \* per job: what happened to it (history)
  now,         \* the wall clock read by new Date()
  requests,    \* per process request: where its handler is, and its reply
  probe        \* a transcript handed to the stub generator directly, and what it returned

vars ==
  <<config, queue, processing, lecture, files, loop, enqueued, log, trace, now, requests, probe>>

NoPaths ==
  [notesShortMdPath |-> None, notesDetailedMdPath |-> None, flashcardsJsonPath |-> None,
   quizJsonPath |-> None, podcastScriptPath |-> None]

\* A process request whose handler has not started.  Of a request the record
\* keeps where its handler is (none, find: the query is issued, found: the
\* store has answered, replied), the lecture id parsed, the status the query
\* read, the reply, whether it called enqueue, and whether a job for the
\* lecture was executing when the handler started, when the store answered
\* and when the reply was made (history).
NoRequest ==
  [pc |-> "none", lectureId |-> None, found |-> None, statusCode |-> 0, code |-> "",
   status |-> "", jobStarted |-> FALSE, enqueuedJob |-> None,
   executingAtStart |-> FALSE, executingAtFind |-> FALSE, executingAtReply |-> FALSE]

\* An invocation of processQueue that is not running (never started, or returned).
IdleLoop ==
  [pc |-> "idle", job |-> None, transcript |-> None, transcriptJsonPath |-> None,
   transcriptTextPath |-> None, outputs |-> None, saveIdx |-> 0, result |-> NoPaths,
   errorMessage |-> None]

NewLecture ==
  [status |-> "uploaded", errorMessage |-> None,
   transcriptJsonPath |-> None, transcriptTextPath |-> None,
   notesShortMdPath |-> None, notesDetailedMdPath |-> None, flashcardsJsonPath |-> None,
   quizJsonPath |-> None, podcastScriptPath |-> None, podcastAudioMp3Path |-> None,
   updatedAt |-> 0]

\* History of one job: whether a loop was draining when it was enqueued, the
\* queue length its push left, whether its enqueue started a loop, how often it
\* was dequeued, whether the record had an audio path then, what made it fail
\* (the value first thrown, and the stage), the transcript generation read,
\* whether the provider threw, whether generateOutputs returned, whether the
\* synthesis adapter was called and returned a path, whether processJob returned,
\* how often the chosen generator and the fallback generator were called,
\* whether one of its status writes threw, whether an exception left processJob,
\* and the statuses it had persisted when transcribeAudio, generateOutputs and
\* generateTTSAudio were called, whether it was enqueued while the loop was
\* suspended in the terminal status write of the last queued job (kept until
\* its own first status write lands), the call of the stub transcription
\* made for it (its argument and its result), and the document paths
\* generateOutputs returned for it.
NoTrace ==
  [busyAtEnqueue |-> FALSE, queuedAt |-> 0, startedLoop |-> FALSE, dequeued |-> 0,
   hadAudio |-> FALSE, cause |-> None, failedStage |-> "none", transcript |-> None,
   primaryThrew |-> FALSE, generated |-> FALSE, ttsInvoked |-> FALSE,
   ttsArtifact |-> FALSE, returned |-> FALSE,
   primaryCalls |-> 0, fallbackCalls |-> 0,
   writeThrew |-> FALSE, escaped |-> FALSE,
   sttAfter |-> None, genAfter |-> None, ttsAfter |-> None,
   finalStepAtEnqueue |-> FALSE, stubCall |-> None, produced |-> NoPaths]

\* No transcript is handed to the stub generator outside the pipeline.
NoProbe == [transcript |-> None, prefs |-> None, notesShort |-> None, notesDetailed |-> None]

\* The runner, the store and the route after construction.
InitRunner ==
  /\ config \in ConfigChoices
  /\ queue = <<>>
  /\ processing = FALSE
  /\ lecture = [l \in LectureIds |-> NewLecture]
  /\ files = [p \in FilePaths |-> None]
  /\ loop = [k \in JobIds |-> IdleLoop]
  /\ enqueued = 0
  /\ log = <<>>
  /\ trace = [j \in JobIds |-> NoTrace]
  /\ now = 0
  /\ requests = [r \in RequestIds |-> NoRequest]

Init == InitRunner /\ probe = NoProbe

\* ---------------------------------------------------------------- JobRunner
\* The jobs the enqueue call numbered id may carry.
JobsWithId(id) ==
  {[id |-> id, lectureId |-> l, courseCode |-> CourseCodeOf(l), audioPath |-> AudioPathOf(l),
    generateOptions |-> g, ttsOptions |-> t] :
     l \in LectureIds, g \in GenerateOptionChoices, t \in TtsOptionChoices}

\* getSTTProvider
SttProvider(cfg) == IF cfg.elevenLabsApiKey # "" THEN "elevenlabs" ELSE "stub"

\* getGeneratorProvider
GeneratorProvider(cfg) ==
  IF cfg.openaiApiKey # "" THEN "openai"
  ELSE IF cfg.geminiApiKey # "" THEN "gemini"
  ELSE "stub"

\* Variant of Shift: queue.pop() in place of queue.shift().
ShiftLast(q) == [job |-> q[Len(q)], rest |-> SubSeq(q, 1, Len(q) - 1)]

\* Variant of Shift: queue[0] is read and left in the queue.
ShiftPeek(q) == [job |-> Head(q), rest |-> q]

\* queue.shift(): the job taken and the queue left.
Shift(q) == [job |-> Head(q), rest |-> Tail(q)]

\* Variant of ReturnsEarly: the guard without the test of the processing flag.
ReturnsEarlyOnEmptyOnly(isProcessing, q) == Len(q) = 0

\* Variant of ReturnsEarly: the guard with && in place of ||.
ReturnsEarlyWhenBoth(isProcessing, q) == isProcessing /\ Len(q) = 0

\* processQueue's guard: it returns at once when a loop is already draining
\* or nothing is queued.
ReturnsEarly(isProcessing, q) == isProcessing \/ Len(q) = 0

\* Variant of updateStatus: a failed record is reset to its transcript-less form.
updateStatusDropsPaths(record, status, errorMessage) ==
  [record EXCEPT !.status = status, !.errorMessage = errorMessage, !.updatedAt = now,
                 !.transcriptJsonPath = IF status = "failed" THEN None ELSE @,
                 !.transcriptTextPath = IF status = "failed" THEN None ELSE @]

\* Variant of updateStatus: a null errorMessage is left out of the update.
updateStatusKeepsMessage(record, status, errorMessage) ==
  [record EXCEPT !.status = status,
                 !.errorMessage = IF errorMessage = None THEN @ ELSE errorMessage,
                 !.updatedAt = now]

\* Variant of updateStatus: the status is left out of the update.
updateStatusKeepsStatus(record, status, errorMessage) ==
  [record EXCEPT !.errorMessage = errorMessage, !.updatedAt = now]

\* updateStatus: status, errorMessage and updatedAt (new Date()) are written
\* together.
updateStatus(record, status, errorMessage) ==
  [record EXCEPT !.status = status, !.errorMessage = errorMessage, !.updatedAt = now]

\* Variant of CatchMessage: a fixed message whatever was thrown.
CatchMessageGeneric(error) == "Unknown error"

\* processJob's catch: the message kept of what was thrown.
CatchMessage(error) == ErrorMessageOf(error)

\* Variant of FallbackOutputs: the fallback called without the job's preferences.
FallbackOutputsDefaultPrefs(transcript, options) ==
  StubGenerateNotes(transcript, [options EXCEPT !.prefs = [tone |-> <<>>]])

\* generateOutputs' catch: the stub generator stands in for the failed provider.
FallbackOutputs(transcript, options) == StubGenerateNotes(transcript, options)

\* Variant of TtsWanted: the script path is not tested.
TtsWantedWithoutScript(job, result) ==
  job.generateOptions.podcastScript /\ job.ttsOptions.enabled

\* The condition under which processJob calls the synthesis adapter.
TtsWanted(job, result) ==
  job.generateOptions.podcastScript /\ job.ttsOptions.enabled /\ result.podcastScriptPath # None

\* options.voiceId || config.elevenLabs.voiceId
VoiceIdFor(ttsOptions, cfg) ==
  IF ttsOptions.voiceId # "" THEN ttsOptions.voiceId ELSE cfg.elevenLabsVoiceId

\* transcript.segments.map(seg => seg.text).join(' ')
TranscriptText(transcript) ==
  Join([i \in 1..Len(transcript.segments) |-> transcript.segments[i].text], <<" ">>)

\* The first document at or after index i that generateOutputs saves;
\* NumDocKinds + 1 when there is none.
RECURSIVE NextSave(_, _)
NextSave(outputs, i) ==
  IF i > NumDocKinds THEN i
  ELSE IF Produced(outputs, DocKinds[i]) THEN i
  ELSE NextSave(outputs, i + 1)

JobOf(k) == loop[k].job[1]

\* Variant of StoreUpdate: the store writes the data it is given and nothing
\* else.
StoreUpdateDataOnly(record) == record

\* The record store stamps every update of a record with the time of the
\* update (the updatedAt column is maintained by the store).  The clock is read
\* in the step in which the write lands.
StoreUpdate(record) == [record EXCEPT !.updatedAt = now]

\* The statuses job j has persisted according to the history lg.
StatusesIn(lg, j) ==
  LET mine == SelectSeq(lg, LAMBDA entry : entry.job = j)
  IN  [i \in 1..Len(mine) |-> mine[i].status]

\* A status write for job j lands on lecture l.
Land(l, record, j) ==
  /\ lecture' = [lecture EXCEPT ![l] = StoreUpdate(record)]
  /\ log' = Append(log, [job |-> j, lecture |-> l, status |-> record.status,
                         errorMessage |-> record.errorMessage,
                         at |-> now, updatedAt |-> StoreUpdate(record).updatedAt])

\* Variant of StartedJob: the stub transcription has run before processJob
\* first suspends.
StartedJobTranscribed(job) ==
  [IdleLoop EXCEPT !.pc = "save_json", !.job = Some(job),
                   !.transcript = Some(StubTranscribe(job.audioPath))]

\* processJob(job) up to its first suspension: updateStatus('transcribing') is
\* issued and awaited; nothing else has run.
StartedJob(job) == [IdleLoop EXCEPT !.pc = "w_transcribing", !.job = Some(job)]

\* processQueue's while loop, run by invocation k from the test of the queue to
\* the next suspension: the first status write of the next job, or the end.
\* tr is the history so far.
RunLoop(k, q, isProcessing, lec, tr) ==
  IF Len(q) > 0
  THEN LET s == Shift(q) IN
       /\ queue' = s.rest
       /\ processing' = isProcessing
       /\ loop' = [loop EXCEPT ![k] = StartedJob(s.job)]
       /\ trace' = [tr EXCEPT ![s.job.id] =
                      [@ EXCEPT !.dequeued = @ + 1,
                                !.hadAudio = lec[s.job.lectureId].podcastAudioMp3Path # None]]
  ELSE /\ queue' = q
       /\ processing' = FALSE
       /\ loop' = [loop EXCEPT ![k] = IdleLoop]
       /\ trace' = tr

\* The invocations of processQueue that are past the guard and not yet returned.
ActiveLoops == {k \in JobIds : loop[k].pc # "idle"}

\* enqueue(job): push, then processQueue up to its first suspension.
Enqueue(job) ==
  /\ enqueued' = enqueued + 1
  /\ LET q == Append(queue, job)
         early == ReturnsEarly(processing, q)
         tr == [trace EXCEPT ![job.id] =
                  [@ EXCEPT !.busyAtEnqueue = ActiveLoops # {}, !.queuedAt = Len(q),
                            !.startedLoop = ~early,
                            !.finalStepAtEnqueue =
                               /\ queue = <<>>
                               /\ \E k \in ActiveLoops :
                                    loop[k].pc \in {"w_complete", "w_complete_audio",
                                                    "w_complete_retry", "w_failed"}]]
     IN  IF early
         THEN /\ queue' = q
              /\ trace' = tr
              /\ UNCHANGED <<processing, loop>>
         ELSE RunLoop(job.id, q, TRUE, lecture, tr)
  /\ UNCHANGED <<config, lecture, files, log>>

\* processJob returns to the loop, which goes on.
JobReturns(k) ==
  RunLoop(k, queue, processing, lecture',
          [trace EXCEPT ![JobOf(k).id] = [@ EXCEPT !.returned = TRUE]])

\* Variant of Fail: the exception leaves processJob and processQueue.
FailEscapes(k, error, cause, stage) ==
  /\ loop' = [loop EXCEPT ![k] = IdleLoop]
  /\ trace' = [trace EXCEPT ![JobOf(k).id] =
                 [@ EXCEPT !.cause = Some(cause), !.failedStage = stage]]

\* An exception reaches processJob's catch: updateStatus('failed', message) is issued.
Fail(k, error, cause, stage) ==
  /\ loop' = [loop EXCEPT ![k] =
                [@ EXCEPT !.pc = "w_failed", !.errorMessage = Some(CatchMessage(error)),
                          !.transcript = None, !.outputs = None, !.saveIdx = 0]]
  /\ trace' = [trace EXCEPT ![JobOf(k).id] =
                 [@ EXCEPT !.cause = Some(cause), !.failedStage = stage]]

\* updateStatus('transcribing') lands; transcribeAudio starts.
WriteTranscribing(k) ==
  /\ loop[k].pc = "w_transcribing"
  /\ LET job == JobOf(k) IN
       /\ Land(job.lectureId, updateStatus(lecture[job.lectureId], "transcribing", None), job.id)
       /\ loop' = [loop EXCEPT ![k] =
                     IF SttProvider(config) = "stub"
                     THEN [@ EXCEPT !.pc = "save_json",
                                    !.transcript = Some(StubTranscribe(job.audioPath))]
                     ELSE [@ EXCEPT !.pc = "stt"]]
       /\ trace' = [trace EXCEPT ![job.id] =
                      [@ EXCEPT !.sttAfter = Some(StatusesIn(log', job.id)),
                                !.finalStepAtEnqueue = FALSE,
                                !.stubCall =
                                   IF SttProvider(config) = "stub"
                                   THEN Some([audioPath |-> job.audioPath,
                                              result |-> loop'[k].transcript[1]])
                                   ELSE None]]
  /\ UNCHANGED <<config, queue, processing, files, enqueued>>
  /\ UNCHANGED <<now, requests, probe>>

\* The transcription provider returns.
SttReturns(k, transcript) ==
  /\ loop[k].pc = "stt"
  /\ transcript \in ProviderTranscripts
  /\ loop' = [loop EXCEPT ![k] = [@ EXCEPT !.pc = "save_json", !.transcript = Some(transcript)]]
  /\ UNCHANGED <<config, queue, processing, lecture, files, enqueued, log, trace>>
  /\ UNCHANGED <<now, requests, probe>>

\* The transcription provider throws.
SttThrows(k, e) ==
  /\ loop[k].pc = "stt"
  /\ e \in Thrown
  /\ Fail(k, SttError(e), e, "transcription")
  /\ UNCHANGED <<config, queue, processing, lecture, files, enqueued, log>>
  /\ UNCHANGED <<now, requests, probe>>

\* saveJsonFile(transcript.json) succeeds.
SaveTranscriptJson(k) ==
  /\ loop[k].pc = "save_json"
  /\ LET job == JobOf(k)
         path == OutputPath(job.courseCode, job.lectureId, "transcript.json")
     IN  /\ files' = [files EXCEPT ![path] = Some(JsonStringify(loop[k].transcript[1]))]
         /\ loop' = [loop EXCEPT ![k] =
                       [@ EXCEPT !.pc = "save_txt", !.transcriptJsonPath = Some(path)]]
  /\ UNCHANGED <<config, queue, processing, lecture, enqueued, log, trace>>
  /\ UNCHANGED <<now, requests, probe>>

\* saveJsonFile(transcript.json) throws.
SaveTranscriptJsonThrows(k, e) ==
  /\ loop[k].pc = "save_json"
  /\ e \in FsErrors
  /\ Fail(k, SttError(e), e, "transcription")
  /\ UNCHANGED <<config, queue, processing, lecture, files, enqueued, log>>
  /\ UNCHANGED <<now, requests, probe>>

\* saveTextFile(transcript.txt) succeeds; transcribeAudio returns and the
\* update to 'transcribed' is issued.
SaveTranscriptText(k) ==
  /\ loop[k].pc = "save_txt"
  /\ LET job == JobOf(k)
         path == OutputPath(job.courseCode, job.lectureId, "transcript.txt")
     IN  /\ files' = [files EXCEPT ![path] = Some(TranscriptText(loop[k].transcript[1]))]
         /\ loop' = [loop EXCEPT ![k] =
                       [@ EXCEPT !.pc = "w_transcribed", !.transcriptTextPath = Some(path),
                                 !.transcript = None]]
  /\ UNCHANGED <<config, queue, processing, lecture, enqueued, log, trace>>
  /\ UNCHANGED <<now, requests, probe>>

\* saveTextFile(transcript.txt) throws.
SaveTranscriptTextThrows(k, e) ==
  /\ loop[k].pc = "save_txt"
  /\ e \in FsErrors
  /\ Fail(k, SttError(e), e, "transcription")
  /\ UNCHANGED <<config, queue, processing, lecture, files, enqueued, log>>
  /\ UNCHANGED <<now, requests, probe>>

\* The update to 'transcribed' with both transcript paths lands;
\* updateStatus('generating') is issued.
WriteTranscribed(k) ==
  /\ loop[k].pc = "w_transcribed"
  /\ LET job == JobOf(k) IN
       Land(job.lectureId,
            [lecture[job.lectureId] EXCEPT !.status = "transcribed",
                                           !.transcriptJsonPath = loop[k].transcriptJsonPath,
                                           !.transcriptTextPath = loop[k].transcriptTextPath],
            job.id)
  /\ loop' = [loop EXCEPT ![k] = [@ EXCEPT !.pc = "w_generating"]]
  /\ UNCHANGED <<config, queue, processing, files, enqueued, trace>>
  /\ UNCHANGED <<now, requests, probe>>

\* updateStatus('generating') lands; generateOutputs starts reading the transcript.
WriteGenerating(k) ==
  /\ loop[k].pc = "w_generating"
  /\ LET job == JobOf(k) IN
       /\ Land(job.lectureId, updateStatus(lecture[job.lectureId], "generating", None), job.id)
       /\ trace' = [trace EXCEPT ![job.id] =
                      [@ EXCEPT !.genAfter = Some(StatusesIn(log', job.id))]]
  /\ loop' = [loop EXCEPT ![k] = [@ EXCEPT !.pc = "gen_read"]]
  /\ UNCHANGED <<config, queue, processing, files, enqueued>>
  /\ UNCHANGED <<now, requests, probe>>

\* generateOutputs has its outputs: the first save is issued, or, with nothing
\* to save, it returns and the update to 'voiced' is issued.
BeginSaves(loopRec, outputs) ==
  LET idx == NextSave(outputs, 1) IN
    IF idx > NumDocKinds
    THEN [loopRec EXCEPT !.pc = "w_voiced", !.transcript = None, !.outputs = None,
                         !.saveIdx = 0]
    ELSE [loopRec EXCEPT !.pc = "gen_save", !.transcript = None, !.outputs = Some(outputs),
                         !.saveIdx = idx]

\* readJsonFile(transcriptJsonPath) returns; the provider is chosen and called.
\* The stub generator returns without suspending.
GenRead(k) ==
  /\ loop[k].pc = "gen_read"
  /\ files[loop[k].transcriptJsonPath[1]] # None
  /\ LET job == JobOf(k)
         transcript == JsonParse(files[loop[k].transcriptJsonPath[1]][1])
     IN  /\ loop' = [loop EXCEPT ![k] =
                       IF GeneratorProvider(config) = "stub"
                       THEN BeginSaves(@, StubGenerateNotes(transcript, job.generateOptions))
                       ELSE [@ EXCEPT !.pc = "gen_primary", !.transcript = Some(transcript)]]
         /\ trace' = [trace EXCEPT ![job.id] =
                        [@ EXCEPT !.transcript = Some(transcript),
                                  !.primaryCalls = @ + 1,
                                  !.generated = loop'[k].pc = "w_voiced"]]
  /\ UNCHANGED <<config, queue, processing, lecture, files, enqueued, log>>
  /\ UNCHANGED <<now, requests, probe>>

\* readJsonFile(transcriptJsonPath) throws.
GenReadThrows(k, e) ==
  /\ loop[k].pc = "gen_read"
  /\ e \in FsErrors
  /\ Fail(k, e, e, "generation")
  /\ UNCHANGED <<config, queue, processing, lecture, files, enqueued, log>>
  /\ UNCHANGED <<now, requests, probe>>

\* The configured LLM provider resolves.
GenPrimaryReturns(k, outputs) ==
  /\ loop[k].pc = "gen_primary"
  /\ outputs \in LlmResults(JobOf(k).generateOptions)
  /\ loop' = [loop EXCEPT ![k] = BeginSaves(@, outputs)]
  /\ trace' = [trace EXCEPT ![JobOf(k).id] = [@ EXCEPT !.generated = loop'[k].pc = "w_voiced"]]
  /\ UNCHANGED <<config, queue, processing, lecture, files, enqueued, log>>
  /\ UNCHANGED <<now, requests, probe>>

\* Variant of OnProviderThrow: the provider is called again.
OnProviderThrowRetries(loopRec, options) == [loopRec EXCEPT !.pc = "gen_primary"]

\* generateOutputs' catch: the stub generator is called, once, with the same
\* transcript and options, and the saves begin with what it returns.
OnProviderThrow(loopRec, options) ==
  BeginSaves(loopRec, FallbackOutputs(loopRec.transcript[1], options))

\* The configured LLM provider rejects: the stub generator is called instead.
GenPrimaryThrows(k, e) ==
  /\ loop[k].pc = "gen_primary"
  /\ e \in Thrown
  /\ loop' = [loop EXCEPT ![k] = OnProviderThrow(@, JobOf(k).generateOptions)]
  /\ trace' = [trace EXCEPT ![JobOf(k).id] =
                 [@ EXCEPT !.primaryThrew = TRUE,
                           !.primaryCalls = IF loop'[k].pc = "gen_primary" THEN @ + 1 ELSE @,
                           !.fallbackCalls = IF loop'[k].pc = "gen_primary" THEN @ ELSE @ + 1,
                           !.generated = loop'[k].pc = "w_voiced"]]
  /\ UNCHANGED <<config, queue, processing, lecture, files, enqueued, log>>
  /\ UNCHANGED <<now, requests, probe>>

\* The save of the document at saveIdx succeeds; the next one is issued, or
\* generateOutputs returns and the update to 'voiced' is issued.
GenSave(k) ==
  /\ loop[k].pc = "gen_save"
  /\ LET job == JobOf(k)
         kind == DocKinds[loop[k].saveIdx]
         outputs == loop[k].outputs[1]
         path == OutputPath(job.courseCode, job.lectureId, FileNameOf(kind))
         content == IF IsTextKind(kind) THEN outputs[kind][1]
                    ELSE JsonStringify(outputs[kind][1])
         idx == NextSave(outputs, loop[k].saveIdx + 1)
     IN  /\ files' = [files EXCEPT ![path] = Some(content)]
         /\ loop' = [loop EXCEPT ![k] =
                       [@ EXCEPT !.result = [@ EXCEPT ![PathFieldOf(kind)] = Some(path)],
                                 !.saveIdx = IF idx > NumDocKinds THEN 0 ELSE idx,
                                 !.outputs = IF idx > NumDocKinds THEN None ELSE @,
                                 !.pc = IF idx > NumDocKinds THEN "w_voiced" ELSE "gen_save"]]
         /\ trace' = [trace EXCEPT ![job.id] = [@ EXCEPT !.generated = idx > NumDocKinds]]
  /\ UNCHANGED <<config, queue, processing, lecture, enqueued, log>>
  /\ UNCHANGED <<now, requests, probe>>

\* The save of the document at saveIdx throws.
GenSaveThrows(k, e) ==
  /\ loop[k].pc = "gen_save"
  /\ e \in FsErrors
  /\ Fail(k, e, e, "generation")
  /\ UNCHANGED <<config, queue, processing, lecture, files, enqueued, log>>
  /\ UNCHANGED <<now, requests, probe>>

\* Variant of MergePaths: the script path is left out of the update.
MergePathsWithoutScript(record, result) ==
  [f \in DOMAIN record |->
     IF f \in DOMAIN result \ {"podcastScriptPath"} /\ result[f] # None
     THEN result[f] ELSE record[f]]

\* ...outputs spread into the update: only the paths produced are written.
MergePaths(record, result) ==
  [f \in DOMAIN record |->
     IF f \in DOMAIN result /\ result[f] # None THEN result[f] ELSE record[f]]

\* Variant of WithOutputs: the status written without the paths.
WithOutputsStatusOnly(record, result) == [record EXCEPT !.status = "voiced"]

\* Variant of WithOutputs: the paths written without a status.
WithOutputsKeepsStatus(record, result) == MergePaths(record, result)

\* The update after generation: status 'voiced' and the produced paths.
WithOutputs(record, result) == [MergePaths(record, result) EXCEPT !.status = "voiced"]

\* Variant of CompleteWithAudio: the audio path written without the status.
CompleteWithAudioKeepsStatus(record, mp3Path) ==
  [record EXCEPT !.podcastAudioMp3Path = Some(mp3Path)]

\* Variant of CompleteWithAudio: the status written without the audio path.
CompleteWithAudioDropsPath(record, mp3Path) == [record EXCEPT !.status = "complete"]

\* The update after synthesis: the audio path and status 'complete'.
CompleteWithAudio(record, mp3Path) ==
  [record EXCEPT !.podcastAudioMp3Path = Some(mp3Path), !.status = "complete"]

\* Variant of AfterTtsFailure: a synthesis failure taken to processJob's catch.
AfterTtsFailureFails(loopRec) ==
  [loopRec EXCEPT !.pc = "w_failed", !.errorMessage = Some("TTS failed")]

\* Variant of AfterTtsFailure: the failed synthesis call never settles.
AfterTtsFailureHangs(loopRec) == [loopRec EXCEPT !.pc = "tts_pending"]

\* generateTTSAudio catches what its steps throw and returns null; processJob
\* then issues updateStatus('complete', null).
AfterTtsFailure(loopRec) == [loopRec EXCEPT !.pc = "w_complete"]

\* The update to 'voiced' with the produced paths lands; then either the
\* synthesis adapter is called or updateStatus('complete') is issued.  Without
\* an API key generateTTSAudio returns null without suspending.
WriteVoiced(k) ==
  /\ loop[k].pc = "w_voiced"
  /\ LET job == JobOf(k)
         wanted == TtsWanted(job, loop[k].result)
     IN  /\ Land(job.lectureId,
                 WithOutputs(lecture[job.lectureId], loop[k].result),
                 job.id)
         /\ loop' = [loop EXCEPT ![k] =
                       [@ EXCEPT !.pc = IF wanted /\ config.elevenLabsApiKey # ""
                                        THEN "tts_read" ELSE "w_complete"]]
         /\ trace' = [trace EXCEPT ![job.id] =
                        [@ EXCEPT !.ttsInvoked = wanted,
                                  !.produced = loop[k].result,
                                  !.ttsAfter = IF wanted THEN Some(StatusesIn(log', job.id))
                                               ELSE None]]
  /\ UNCHANGED <<config, queue, processing, files, enqueued>>
  /\ UNCHANGED <<now, requests, probe>>

\* readTextFile(scriptPath) returns: without a voice id generateTTSAudio
\* throws into its own catch and returns null; otherwise the request is sent.
TtsRead(k) ==
  /\ loop[k].pc = "tts_read"
  /\ loop' = [loop EXCEPT ![k] =
                IF VoiceIdFor(JobOf(k).ttsOptions, config) = ""
                THEN AfterTtsFailure(@) ELSE [@ EXCEPT !.pc = "tts_fetch"]]
  /\ UNCHANGED <<config, queue, processing, lecture, files, enqueued, log, trace>>
  /\ UNCHANGED <<now, requests, probe>>

\* readTextFile(scriptPath) throws: caught by generateTTSAudio, which returns null.
TtsReadThrows(k) ==
  /\ loop[k].pc = "tts_read"
  /\ loop' = [loop EXCEPT ![k] = AfterTtsFailure(@)]
  /\ UNCHANGED <<config, queue, processing, lecture, files, enqueued, log, trace>>
  /\ UNCHANGED <<now, requests, probe>>

\* The provider answers with audio: saveBinaryFile is issued.
TtsFetchOk(k) ==
  /\ loop[k].pc = "tts_fetch"
  /\ loop' = [loop EXCEPT ![k] = [@ EXCEPT !.pc = "tts_save"]]
  /\ UNCHANGED <<config, queue, processing, lecture, files, enqueued, log, trace>>
  /\ UNCHANGED <<now, requests, probe>>

\* The request fails (network) or the provider answers with a non-success
\* status: caught by generateTTSAudio, which returns null.
TtsFetchFails(k, outcome) ==
  /\ loop[k].pc = "tts_fetch"
  /\ outcome \in {"network_error", "not_ok"}
  /\ loop' = [loop EXCEPT ![k] = AfterTtsFailure(@)]
  /\ UNCHANGED <<config, queue, processing, lecture, files, enqueued, log, trace>>
  /\ UNCHANGED <<now, requests, probe>>

\* saveBinaryFile(podcast_audio.mp3) succeeds: generateTTSAudio returns the
\* path and the update to 'complete' with the audio path is issued.
TtsSave(k) ==
  /\ loop[k].pc = "tts_save"
  /\ LET job == JobOf(k)
         path == OutputPath(job.courseCode, job.lectureId, "podcast_audio.mp3")
     IN  /\ files' = [files EXCEPT ![path] = Some(<<"audio/mpeg">>)]
         /\ trace' = [trace EXCEPT ![job.id] = [@ EXCEPT !.ttsArtifact = TRUE]]
  /\ loop' = [loop EXCEPT ![k] = [@ EXCEPT !.pc = "w_complete_audio"]]
  /\ UNCHANGED <<config, queue, processing, lecture, enqueued, log>>
  /\ UNCHANGED <<now, requests, probe>>

\* saveBinaryFile throws: caught by generateTTSAudio, which returns null.
TtsSaveThrows(k) ==
  /\ loop[k].pc = "tts_save"
  /\ loop' = [loop EXCEPT ![k] = AfterTtsFailure(@)]
  /\ UNCHANGED <<config, queue, processing, lecture, files, enqueued, log, trace>>
  /\ UNCHANGED <<now, requests, probe>>

\* The update to 'complete' with the audio path lands; the loop goes on.
WriteCompleteAudio(k) ==
  /\ loop[k].pc = "w_complete_audio"
  /\ LET job == JobOf(k)
         path == OutputPath(job.courseCode, job.lectureId, "podcast_audio.mp3")
     IN  Land(job.lectureId, CompleteWithAudio(lecture[job.lectureId], path), job.id)
  /\ JobReturns(k)
  /\ UNCHANGED <<config, files, enqueued>>
  /\ UNCHANGED <<now, requests, probe>>

\* updateStatus('complete', null) lands; the loop goes on.
WriteComplete(k) ==
  /\ loop[k].pc \in {"w_complete", "w_complete_retry"}
  /\ LET job == JobOf(k) IN
       Land(job.lectureId, updateStatus(lecture[job.lectureId], "complete", None), job.id)
  /\ JobReturns(k)
  /\ UNCHANGED <<config, files, enqueued>>
  /\ UNCHANGED <<now, requests, probe>>

\* updateStatus('failed', message) lands; the loop goes on.
WriteFailed(k) ==
  /\ loop[k].pc = "w_failed"
  /\ LET job == JobOf(k) IN
       Land(job.lectureId,
            updateStatus(lecture[job.lectureId], "failed", loop[k].errorMessage), job.id)
  /\ JobReturns(k)
  /\ UNCHANGED <<config, files, enqueued>>
  /\ UNCHANGED <<now, requests, probe>>

\* What prisma.lecture.update throws when the record store fails.
StoreErrors == {[isError |-> TRUE, message |-> "SQLITE_BUSY: database is locked"]}

\* Where control goes when the status write issued at pc throws: the writes of
\* complete made inside the synthesis try block (after generateTTSAudio was
\* called) are caught by its catch, which issues updateStatus('complete')
\* again; the write of failed is made in processJob's catch and nothing
\* catches it; every other write is caught by processJob's catch.
CatchOfWrite(pc, ttsInvoked) ==
  IF pc = "w_failed" THEN "escaped"
  ELSE IF pc = "w_complete_audio" \/ (pc = "w_complete" /\ ttsInvoked) THEN "w_complete_retry"
  ELSE "w_failed"

\* The status write a drain loop has issued is rejected by the record store.
\* When nothing catches it, processJob and processQueue reject: the loop is
\* gone and processing is left as it was.
StoreWriteThrows(k, e) ==
  /\ loop[k].pc \in {"w_transcribing", "w_transcribed", "w_generating", "w_voiced",
                      "w_complete_audio", "w_complete", "w_complete_retry", "w_failed"}
  /\ e \in StoreErrors
  /\ LET j == JobOf(k).id
         to == CatchOfWrite(loop[k].pc, trace[j].ttsInvoked)
     IN  /\ loop' = [loop EXCEPT ![k] =
                       IF to = "escaped" THEN IdleLoop
                       ELSE IF to = "w_failed"
                            THEN [@ EXCEPT !.pc = to, !.errorMessage = Some(CatchMessage(e))]
                            ELSE [@ EXCEPT !.pc = to]]
         /\ trace' = [trace EXCEPT ![j] =
                        [@ EXCEPT !.writeThrew = TRUE, !.escaped = (to = "escaped")]]
  /\ UNCHANGED <<config, queue, processing, lecture, files, enqueued, log, now, requests, probe>>

\* The steps of the drain loops: every return of a suspended call.
Stages ==
  \/ \E k \in JobIds : WriteTranscribing(k)
  \/ \E k \in JobIds, t \in ProviderTranscripts : SttReturns(k, t)
  \/ \E k \in JobIds, e \in Thrown : SttThrows(k, e)
  \/ \E k \in JobIds : SaveTranscriptJson(k)
  \/ \E k \in JobIds, e \in FsErrors : SaveTranscriptJsonThrows(k, e)
  \/ \E k \in JobIds : SaveTranscriptText(k)
  \/ \E k \in JobIds, e \in FsErrors : SaveTranscriptTextThrows(k, e)
  \/ \E k \in JobIds : WriteTranscribed(k)
  \/ \E k \in JobIds : WriteGenerating(k)
  \/ \E k \in JobIds : GenRead(k)
  \/ \E k \in JobIds, e \in FsErrors : GenReadThrows(k, e)
  \/ \E k \in JobIds, o \in UNION {LlmResults(g) : g \in GenerateOptionChoices} :
       GenPrimaryReturns(k, o)
  \/ \E k \in JobIds, e \in Thrown : GenPrimaryThrows(k, e)
  \/ \E k \in JobIds : GenSave(k)
  \/ \E k \in JobIds, e \in FsErrors : GenSaveThrows(k, e)
  \/ \E k \in JobIds : WriteVoiced(k)
  \/ \E k \in JobIds : TtsRead(k)
  \/ \E k \in JobIds : TtsReadThrows(k)
  \/ \E k \in JobIds : TtsFetchOk(k)
  \/ \E k \in JobIds, outcome \in {"network_error", "not_ok"} : TtsFetchFails(k, outcome)
  \/ \E k \in JobIds : TtsSave(k)
  \/ \E k \in JobIds : TtsSaveThrows(k)
  \/ \E k \in JobIds : WriteCompleteAudio(k)
  \/ \E k \in JobIds : WriteComplete(k)
  \/ \E k \in JobIds : WriteFailed(k)

\* Callers enqueue up to MaxJobs jobs, with any options, at any time.
Next ==
  \/ \E job \in JobsWithId(enqueued + 1) :
       enqueued < MaxJobs /\ Enqueue(job) /\ UNCHANGED <<now, requests, probe>>
  \/ Stages

Spec == Init /\ [][Next]_vars

\* Every adapter call, file operation and record-store write that a drain loop
\* awaits eventually returns.
FairSpec == Spec /\ WF_vars(Stages)

\* As Spec, with a record store whose updates may fail.
NextFault ==
  \/ \E job \in JobsWithId(enqueued + 1) :
       enqueued < MaxJobs /\ Enqueue(job) /\ UNCHANGED <<now, requests, probe>>
  \/ Stages
  \/ \E k \in JobIds, e \in StoreErrors : StoreWriteThrows(k, e)

SpecFault == Init /\ [][NextFault]_vars

\* The default deployment: no credential is configured, so every adapter is
\* the stub (or skipped).
InitBurst == Init /\ SttProvider(config) = "stub" /\ GeneratorProvider(config) = "stub"

\* The steps a drain loop takes in the default deployment.
StubStages ==
  \/ \E k \in JobIds : WriteTranscribing(k)
  \/ \E k \in JobIds : SaveTranscriptJson(k)
  \/ \E k \in JobIds, e \in FsErrors : SaveTranscriptJsonThrows(k, e)
  \/ \E k \in JobIds : SaveTranscriptText(k)
  \/ \E k \in JobIds, e \in FsErrors : SaveTranscriptTextThrows(k, e)
  \/ \E k \in JobIds : WriteTranscribed(k)
  \/ \E k \in JobIds : WriteGenerating(k)
  \/ \E k \in JobIds : GenRead(k)
  \/ \E k \in JobIds, e \in FsErrors : GenReadThrows(k, e)
  \/ \E k \in JobIds : GenSave(k)
  \/ \E k \in JobIds, e \in FsErrors : GenSaveThrows(k, e)
  \/ \E k \in JobIds : WriteVoiced(k)
  \/ \E k \in JobIds : WriteComplete(k)
  \/ \E k \in JobIds : WriteFailed(k)

\* Jobs asking for the narrated script alone, to be voiced with the default
\* voice.
BurstJobsWithId(id) ==
  {job \in JobsWithId(id) :
     /\ job.generateOptions.podcastScript
     /\ job.ttsOptions.enabled
     /\ job.ttsOptions.voiceId = ""}

\* Callers enqueue up to MaxBurst such jobs at any time, so that jobs pile up
\* in the queue.
NextBurst ==
  \/ \E job \in BurstJobsWithId(enqueued + 1) :
       enqueued < MaxBurst /\ Enqueue(job) /\ UNCHANGED <<now, requests, probe>>
  \/ StubStages

SpecBurst == InitBurst /\ [][NextBurst]_vars

\* The wall clock advances.
Tick ==
  /\ now < MaxClock
  /\ now' = now + 1
  /\ UNCHANGED <<config, queue, processing, lecture, files, loop, enqueued, log, trace,
                 requests, probe>>

\* A deployment with the ElevenLabs key and a default voice: the narrated
\* script can be voiced.
InitClock == Init /\ config.elevenLabsApiKey # "" /\ config.elevenLabsVoiceId # ""

\* Callers enqueue up to MaxJobs jobs asking for the narrated script, voiced;
\* the wall clock advances at any time.
NextClock ==
  \/ \E job \in BurstJobsWithId(enqueued + 1) :
       enqueued < MaxJobs /\ Enqueue(job) /\ UNCHANGED <<now, requests, probe>>
  \/ Stages
  \/ Tick

SpecClock == InitClock /\ [][NextClock]_vars

\* ---------------------------------------------------------- the process route
\* request.params.lectureId, as text.
Params == {<<"1">>, <<"2">>, <<"1", "2">>, <<"x">>}

IsDigit(c) == \E d \in DOMAIN Digits : Digits[d] = c

DigitValue(c) == (CHOOSE d \in DOMAIN Digits : Digits[d] = c) - 1

RECURSIVE ParseDigits(_, _)
\* The value of the leading run of decimal digits of text, after acc.
ParseDigits(text, acc) ==
  IF text = <<>> \/ ~IsDigit(Head(text)) THEN acc
  ELSE ParseDigits(Tail(text), 10 * acc + DigitValue(Head(text)))

\* parseInt(text, 10) of an unsigned text without leading blanks: None is NaN.
parseInt(text) ==
  IF text = <<>> \/ ~IsDigit(Head(text)) THEN None ELSE Some(ParseDigits(text, 0))

\* request.body: a body processRequestSchema.parse rejects, or one that asks
\* for the narrated script, voiced with the default voice.
MalformedBody == [valid |-> FALSE]

Bodies ==
  {MalformedBody} \cup
  {[valid |-> TRUE, generate |-> g, tts |-> t] :
     g \in {o \in GenerateOptionChoices : o.podcastScript},
     t \in {o \in TtsOptionChoices : o.enabled /\ o.voiceId = ""}}

\* A job for lecture l is executing: dequeued, and its terminal status write
\* has not landed.
ExecutingFor(l) ==
  \E k \in ActiveLoops : loop[k].job # None /\ loop[k].job[1].lectureId = l

\* throw new AppError(statusCode, message, code), as errorHandler sends it.
ErrorReply(request, statusCode, code) ==
  [request EXCEPT !.pc = "replied", !.statusCode = statusCode, !.code = code]

\* The status checks of the handler: neither ALREADY_PROCESSING nor ALREADY_COMPLETE.
StatusAllowsProcessing(status) == status \notin {"transcribing", "generating", "complete"}

\* The handler starts: the lecture id is parsed and findUnique is issued.
RouteStart(r, param) ==
  /\ requests[r].pc = "none"
  /\ \A q \in RequestIds : q < r => requests[q].pc # "none"
  /\ LET id == parseInt(param) IN
       requests' = [requests EXCEPT ![r] =
         IF id = None THEN ErrorReply(@, 400, "INVALID_LECTURE_ID")
         ELSE [@ EXCEPT !.pc = "find", !.lectureId = id,
                        !.executingAtStart = ExecutingFor(id[1])]]
  /\ UNCHANGED <<config, queue, processing, lecture, files, loop, enqueued, log, trace, now,
                 probe>>

\* The store answers findUnique with the record as it is, or with null.
RouteFind(r) ==
  /\ requests[r].pc = "find"
  /\ LET l == requests[r].lectureId[1] IN
       requests' = [requests EXCEPT ![r] =
         [@ EXCEPT !.pc = "found",
                   !.found = IF l \in LectureIds THEN Some(lecture[l].status) ELSE None,
                   !.executingAtFind = ExecutingFor(l)]]
  /\ UNCHANGED <<config, queue, processing, lecture, files, loop, enqueued, log, trace, now,
                 probe>>

\* The handler goes on after the await: the checks, the parse of the body,
\* enqueue and the reply.
RouteReply(r, body) ==
  /\ requests[r].pc = "found"
  /\ LET l == requests[r].lectureId[1]
         request == [requests[r] EXCEPT !.executingAtReply = ExecutingFor(l)]
         rejected(statusCode, code) ==
           /\ requests' = [requests EXCEPT ![r] = ErrorReply(request, statusCode, code)]
           /\ UNCHANGED <<config, queue, processing, lecture, files, loop, enqueued, log,
                          trace>>
     IN  IF request.found = None THEN rejected(404, "LECTURE_NOT_FOUND")
         ELSE IF ~StatusAllowsProcessing(request.found[1])
         THEN IF request.found[1] = "complete" THEN rejected(409, "ALREADY_COMPLETE")
              ELSE rejected(409, "ALREADY_PROCESSING")
         ELSE IF ~body.valid THEN rejected(400, "VALIDATION_ERROR")
         ELSE /\ Enqueue([id |-> enqueued + 1, lectureId |-> l,
                          courseCode |-> CourseCodeOf(l), audioPath |-> AudioPathOf(l),
                          generateOptions |-> body.generate, ttsOptions |-> body.tts])
              /\ requests' = [requests EXCEPT ![r] =
                   [request EXCEPT !.pc = "replied", !.statusCode = 200,
                                   !.status = "transcribing", !.jobStarted = TRUE,
                                   !.enqueuedJob = Some(enqueued + 1)]]
  /\ UNCHANGED <<now, probe>>

\* Clients send up to MaxRequests process requests at any time while the
\* default deployment drains the queue.
NextRoute ==
  \/ \E r \in RequestIds, param \in Params : RouteStart(r, param)
  \/ \E r \in RequestIds : RouteFind(r)
  \/ \E r \in RequestIds, body \in Bodies : RouteReply(r, body)
  \/ StubStages

SpecRoute == InitBurst /\ [][NextRoute]_vars

\* ------------------------------------------- the stub generator on its own
\* Each segment lasts this many seconds.
SegmentSeconds == 5

\* The transcripts handed to the stub generator: up to MaxSegments consecutive
\* segments whose texts repeat a pattern of three texts, each a letter, the
\* empty text, another letter or a blank.
ProbeTranscripts ==
  LET Texts == {<<"a">>, <<>>, <<"b">>, <<" ">>}
      SegmentsOf(n, pattern) ==
        [i \in 1..n |->
           [start |-> (i - 1) * SegmentSeconds, end |-> i * SegmentSeconds,
            text |-> pattern[((i - 1) % Len(pattern)) + 1]]]
  IN  {[language |-> "en", segments |-> SegmentsOf(n, pattern)] :
         n \in 0..MaxSegments, pattern \in Texts \X Texts \X Texts}

\* A transcript and preferences are chosen; nothing is generated yet.
InitNotes ==
  /\ InitRunner
  /\ SttProvider(config) = "stub" /\ GeneratorProvider(config) = "stub"
  /\ probe \in {[NoProbe EXCEPT !.transcript = Some(t), !.prefs = Some(g.prefs)] :
                  t \in ProbeTranscripts, g \in GenerateOptionChoices}

\* generateShortNotes is called on the transcript.
ProbeShortNotes ==
  /\ probe.transcript # None /\ probe.notesShort = None
  /\ probe' = [probe EXCEPT !.notesShort = Some(generateShortNotes(probe.transcript[1]))]
  /\ UNCHANGED <<config, queue, processing, lecture, files, loop, enqueued, log, trace, now,
                 requests>>

\* generateDetailedNotes is called on the transcript.
ProbeDetailedNotes ==
  /\ probe.transcript # None /\ probe.notesDetailed = None
  /\ probe' = [probe EXCEPT !.notesDetailed =
                  Some(generateDetailedNotes(probe.transcript[1], probe.prefs[1]))]
  /\ UNCHANGED <<config, queue, processing, lecture, files, loop, enqueued, log, trace, now,
                 requests>>

NextNotes ==
  \/ ProbeShortNotes
  \/ ProbeDetailedNotes

SpecNotes == InitNotes /\ [][NextNotes]_vars

RECURSIVE Split(_, _)
\* String.prototype.split(sep) for a one-character separator.
Split(text, sep) ==
  IF \A i \in DOMAIN text : text[i] # sep THEN <<text>>
  ELSE LET at == CHOOSE i \in DOMAIN text :
                   text[i] = sep /\ \A j \in 1..(i - 1) : text[j] # sep
       IN  <<SubSeq(text, 1, at - 1)>> \o Split(SubSeq(text, at + 1, Len(text)), sep)

\* String.prototype.startsWith
StartsWith(text, prefix) ==
  Len(text) >= Len(prefix) /\ SubSeq(text, 1, Len(prefix)) = prefix

\* ------------------------------------------------------------------ history
\* The status writes of job j that have landed, in order.
JobLog(j) == SelectSeq(log, LAMBDA entry : entry.job = j)

Statuses(j) == LET mine == JobLog(j) IN [i \in 1..Len(mine) |-> mine[i].status]

LastEntry(j) == LET mine == JobLog(j) IN mine[Len(mine)]

\* The last n statuses of job j (all of them when there are fewer).
LastStatuses(j, n) ==
  LET s == Statuses(j) IN SubSeq(s, IF Len(s) > n THEN Len(s) - n + 1 ELSE 1, Len(s))

TerminalPersisted(j) ==
  LET mine == JobLog(j) IN
    mine # <<>> /\ mine[Len(mine)].status \in {"complete", "failed"}

\* The jobs between their dequeue and their terminal status write.
InFlight == {j \in JobIds : trace[j].dequeued > 0 /\ ~TerminalPersisted(j)}

\* ------------------------------------------------------------------- claims

\* C1: jobs are dequeued in enqueue order, and a job's first status write
\* lands only after the terminal status of every job enqueued before it: once
\* a job is dequeued, every job enqueued before it has been dequeued and has
\* its terminal status persisted, and no write of an earlier job lands after a
\* write of a later one.
C1_FifoOrder ==
  /\ \A a, b \in JobIds :
       a < b /\ trace[b].dequeued > 0 =>
         trace[a].dequeued > 0 /\ TerminalPersisted(a)
  /\ \A i \in 1..(Len(log) - 1) : log[i].job <= log[i + 1].job

\* A job that was pushed behind another waiting job has run to its end.
C1_Witness ==
  \E b \in JobIds : trace[b].queuedAt >= 2 /\ trace[b].returned /\ TerminalPersisted(b)

\* C2: at most one job is between its dequeue and its terminal status write,
\* and every suspended call of the pipeline belongs to that one job, which has
\* a single call outstanding.
C2_OneJobAtATime ==
  /\ Cardinality(InFlight) <= 1
  /\ \A k \in ActiveLoops : JobOf(k).id \in InFlight
  /\ \A k1, k2 \in ActiveLoops : JobOf(k1).id = JobOf(k2).id => k1 = k2

\* Two jobs have run to their end, the later one enqueued while a job was in
\* flight.
C2_Witness ==
  \E a, b \in JobIds :
    /\ a # b
    /\ trace[a].returned /\ trace[b].returned
    /\ trace[b].busyAtEnqueue

\* C3: at most one drain loop is active, and an enqueue called while a loop
\* is active starts none.
C3_SingleDrainLoop ==
  /\ Cardinality(ActiveLoops) <= 1
  /\ \A j \in JobIds : trace[j].busyAtEnqueue => ~trace[j].startedLoop

\* Two enqueue calls arrived while the loop was suspended in one job: the
\* second found the first still waiting.
C3_Witness ==
  \E j \in JobIds :
    trace[j].busyAtEnqueue /\ ~trace[j].startedLoop /\ trace[j].queuedAt >= 2

\* C4 as stated: a run whose transcription and generation succeed and that does
\* not attempt synthesis persists exactly transcribing, transcribed,
\* generating, complete; voiced appears only when synthesis succeeded.
C4_Original ==
  \A j \in JobIds :
    trace[j].returned /\ trace[j].generated =>
      /\ ~trace[j].ttsInvoked =>
           Statuses(j) = <<"transcribing", "transcribed", "generating", "complete">>
      /\ (\E i \in DOMAIN Statuses(j) : Statuses(j)[i] = "voiced") => trace[j].ttsArtifact

\* C4 amended: every run whose transcription and generation succeed persists
\* exactly transcribing, transcribed, generating, voiced, complete, whether or
\* not synthesis is attempted or succeeds.
C4_StatusSequence ==
  \A j \in JobIds :
    trace[j].returned /\ trace[j].generated =>
      Statuses(j) = <<"transcribing", "transcribed", "generating", "voiced", "complete">>

\* A run with successful generation and no synthesis attempt has ended.
C4_Witness ==
  \E j \in JobIds : trace[j].returned /\ trace[j].generated /\ ~trace[j].ttsInvoked

\* C5 as stated: when synthesis returned an audio artifact, the last two
\* statuses persisted are generating, complete.
C5_Original ==
  \A j \in JobIds :
    trace[j].returned /\ trace[j].ttsArtifact =>
      LastStatuses(j, 2) = <<"generating", "complete">>

\* C5 amended: when synthesis returned an audio artifact, the last three
\* statuses persisted are generating, voiced, complete.
C5_FinalStatuses ==
  \A j \in JobIds :
    trace[j].returned /\ trace[j].ttsArtifact =>
      LastStatuses(j, 3) = <<"generating", "voiced", "complete">>

\* A run whose synthesis returned an audio artifact has ended.
C5_Witness ==
  \E j \in JobIds : trace[j].returned /\ trace[j].ttsArtifact

\* C6: when synthesis is attempted and yields no artifact, failed is never
\* persisted for the job, and its final status is complete.
C6_SynthesisFailureNotFatal ==
  \A j \in JobIds :
    trace[j].ttsInvoked /\ ~trace[j].ttsArtifact =>
      /\ \A i \in DOMAIN Statuses(j) : Statuses(j)[i] # "failed"
      /\ trace[j].returned => LastEntry(j).status = "complete"

\* A run has ended whose synthesis call reached the provider (a credential
\* and a script were there) and yielded no artifact.
C6_Witness ==
  \E j \in JobIds :
    /\ trace[j].returned /\ trace[j].ttsInvoked /\ ~trace[j].ttsArtifact
    /\ config.elevenLabsApiKey # ""

\* C7: right after a job's write of complete on a record that had no audio
\* path when the job started, the record has an audio path exactly when the
\* synthesis adapter was called and returned an artifact.
C7_AudioPathIffArtifact ==
  log # <<>> =>
    LET last == log[Len(log)] IN
      last.status = "complete" /\ ~trace[last.job].hadAudio =>
        (lecture[last.lecture].podcastAudioMp3Path # None
           <=> trace[last.job].ttsInvoked /\ trace[last.job].ttsArtifact)

\* A job has just written complete with the audio path of its artifact.
C7_Witness ==
  /\ log # <<>>
  /\ log[Len(log)].status = "complete"
  /\ ~trace[log[Len(log)].job].hadAudio
  /\ trace[log[Len(log)].job].ttsArtifact
  /\ lecture[log[Len(log)].lecture].podcastAudioMp3Path # None

\* C8: when the transcription stage raises, the job persists transcribing and
\* then failed, with a non-empty error message, and nothing after it.
C8_TranscriptionFailure ==
  \A j \in JobIds :
    trace[j].failedStage = "transcription" =>
      IF trace[j].returned
      THEN /\ Statuses(j) = <<"transcribing", "failed">>
           /\ LastEntry(j).errorMessage # None
           /\ Len(LastEntry(j).errorMessage[1]) > 0
      ELSE Statuses(j) = <<"transcribing">>

\* A job has failed in transcription on a provider error whose own message
\* is empty.
C8_Witness ==
  \E j \in JobIds :
    /\ trace[j].returned
    /\ trace[j].failedStage = "transcription"
    /\ trace[j].cause = Some([isError |-> TRUE, message |-> ""])

\* C9 as stated: the error message stored with failed is exactly the message
\* of the underlying failure.
C9_Original ==
  \A j \in JobIds :
    trace[j].returned /\ trace[j].failedStage # "none" =>
      LastEntry(j).errorMessage = Some(trace[j].cause[1].message)

\* C9 amended: the message stored with failed is the message of the Error that
\* was thrown ('Unknown error' when the value thrown is not an Error), verbatim
\* for a generation failure and after the prefix 'STT transcription failed: '
\* for a transcription failure.
C9_StoredMessage ==
  \A j \in JobIds :
    trace[j].returned /\ trace[j].failedStage # "none" =>
      LET cause == trace[j].cause[1]
          underlying == IF cause.isError THEN cause.message ELSE "Unknown error"
      IN  LastEntry(j).errorMessage =
            Some(IF trace[j].failedStage = "transcription"
                 THEN "STT transcription failed: " \o underlying
                 ELSE underlying)

\* A job has failed in generation.
C9_Witness ==
  \E j \in JobIds : trace[j].returned /\ trace[j].failedStage = "generation"

\* Where a loop is once generateOutputs has returned.
PostGenerationPcs ==
  {"w_voiced", "tts_read", "tts_fetch", "tts_save", "w_complete", "w_complete_audio"}

\* C10: when the configured generation provider throws, the job fails only if
\* a file operation fails; otherwise it ends complete, never failed, and the
\* documents generateOutputs saved are exactly the stub generator's documents
\* for the transcript read and the job's options.
C10_FallbackEqualsStub ==
  /\ \A j \in JobIds :
       trace[j].primaryThrew =>
         /\ trace[j].failedStage # "none" => trace[j].cause[1] \in FsErrors
         /\ trace[j].returned /\ trace[j].failedStage = "none" =>
              /\ LastEntry(j).status = "complete"
              /\ \A i \in DOMAIN Statuses(j) : Statuses(j)[i] # "failed"
  /\ \A k \in ActiveLoops :
       loop[k].pc \in PostGenerationPcs /\ trace[JobOf(k).id].primaryThrew =>
         LET job == JobOf(k)
             stub == StubGenerateNotes(trace[job.id].transcript[1], job.generateOptions)
         IN  \A i \in 1..NumDocKinds :
               LET kind == DocKinds[i]
                   path == OutputPath(job.courseCode, job.lectureId, FileNameOf(kind))
               IN  IF Produced(stub, kind)
                   THEN /\ loop[k].result[PathFieldOf(kind)] = Some(path)
                        /\ files[path] = Some(IF IsTextKind(kind) THEN stub[kind][1]
                                              ELSE JsonStringify(stub[kind][1]))
                   ELSE loop[k].result[PathFieldOf(kind)] = None

\* A job whose provider threw has ended complete.
C10_Witness ==
  \E j \in JobIds :
    /\ trace[j].primaryThrew /\ trace[j].returned
    /\ LastEntry(j).status = "complete"

\* C11: per job the chosen generator is called exactly once and the stub
\* fallback exactly once when, and only when, the chosen generator threw; a
\* failure after the fallback brings no further generator call and the job
\* ends failed.
C11_AtMostOneFallback ==
  \A j \in JobIds :
    /\ trace[j].primaryCalls = (IF trace[j].transcript # None THEN 1 ELSE 0)
    /\ trace[j].fallbackCalls = (IF trace[j].primaryThrew THEN 1 ELSE 0)
    /\ trace[j].primaryThrew /\ trace[j].failedStage # "none" /\ trace[j].returned =>
         LastEntry(j).status = "failed"

\* A job whose provider threw has ended after one call of the provider and one
\* of the fallback.
C11_Witness ==
  \E j \in JobIds :
    /\ trace[j].returned /\ trace[j].primaryThrew
    /\ trace[j].primaryCalls = 1 /\ trace[j].fallbackCalls = 1

\* C12: a job that raises in transcription or generation ends failed and ends
\* only itself: a queued job always has a drain loop running, every job
\* enqueued behind a failed job is waiting in the queue or has been dequeued,
\* and once the loop has ended every one of them has its terminal status.
C12_FailureIsolated ==
  /\ queue # <<>> => ActiveLoops # {}
  /\ \A a \in JobIds :
       trace[a].failedStage # "none" /\ trace[a].returned =>
         /\ LastEntry(a).status = "failed"
         /\ \A b \in JobIds :
              b > a /\ trace[b].queuedAt > 0 =>
                /\ trace[b].dequeued = 1 \/ \E i \in DOMAIN queue : queue[i].id = b
                /\ ActiveLoops = {} => TerminalPersisted(b)
                /\ trace[b].returned /\ trace[b].failedStage = "none" =>
                     LastEntry(b).status = "complete"

\* The second job, enqueued while the first was running, has ended complete
\* after the first ended failed.
C12_Witness ==
  \E a, b \in JobIds :
    /\ a = 1 /\ b = 2
    /\ trace[a].returned /\ trace[a].failedStage # "none"
    /\ trace[b].busyAtEnqueue /\ trace[b].returned
    /\ LastEntry(b).status = "complete"

\* C13: an exception thrown by a status write is never caught: it leaves
\* processJob and the drain loop, and no further status write is attempted
\* for that job.
C13_Original ==
  \A j \in JobIds :
    trace[j].writeThrew =>
      /\ trace[j].escaped
      /\ \A k \in ActiveLoops : JobOf(k).id # j

\* The place of a status in the chain of a job execution.
Rank(status) ==
  CASE status = "transcribing" -> 1
    [] status = "transcribed" -> 2
    [] status = "generating" -> 3
    [] status = "voiced" -> 4
    [] status = "complete" -> 5
    [] status = "failed" -> 6
    [] OTHER -> 0

\* C14: the statuses a job persists only move forward along transcribing,
\* transcribed, generating, voiced, complete, with failed possible after any
\* status that is not terminal; and each adapter is called only after its
\* stage's status is persisted: transcription after transcribing, generation
\* after transcribed and generating, synthesis after the post-generation
\* status.
C14_ForwardOnly ==
  \A j \in JobIds :
    LET s == Statuses(j) IN
      /\ \A i \in 1..(Len(s) - 1) :
           Rank(s[i]) < Rank(s[i + 1]) /\ s[i] \notin {"complete", "failed"}
      /\ \A i \in DOMAIN s : Rank(s[i]) > 0
      /\ trace[j].sttAfter # None => trace[j].sttAfter[1] = <<"transcribing">>
      /\ trace[j].genAfter # None =>
           trace[j].genAfter[1] = <<"transcribing", "transcribed", "generating">>
      /\ trace[j].ttsAfter # None =>
           trace[j].ttsAfter[1] = <<"transcribing", "transcribed", "generating", "voiced">>
      /\ trace[j].transcript # None => trace[j].genAfter # None /\ trace[j].sttAfter # None
      /\ trace[j].ttsInvoked => trace[j].ttsAfter # None /\ trace[j].genAfter # None

\* A job has ended after all three adapters were called.
C14_Witness ==
  \E j \in JobIds :
    /\ trace[j].returned
    /\ trace[j].sttAfter # None /\ trace[j].genAfter # None /\ trace[j].ttsAfter # None

\* C15: enqueue returns without waiting for the job: when it returns no
\* status write of the job has landed and no adapter has been called for it;
\* called on an idle runner it has started draining and the job's first
\* status write is issued, called while draining it has only appended the job.
C15_EnqueueDoesNotWait ==
  [][enqueued' = enqueued + 1 =>
       LET j == enqueued' IN
         /\ StatusesIn(log', j) = <<>>
         /\ trace'[j].sttAfter = None
         /\ lecture' = lecture /\ files' = files
         /\ IF processing
            THEN /\ Len(queue') = Len(queue) + 1
                 /\ queue'[Len(queue')].id = j
                 /\ SubSeq(queue', 1, Len(queue)) = queue
                 /\ loop' = loop
            ELSE /\ processing'
                 /\ loop'[j].pc = "w_transcribing"
                 /\ loop'[j].job # None /\ loop'[j].job[1].id = j
                 /\ queue' = queue
    ]_vars

\* A job enqueued while the runner was draining is waiting in the queue.
C15_Witness ==
  \E j \in JobIds :
    /\ trace[j].busyAtEnqueue
    /\ \E i \in DOMAIN queue : queue[i].id = j
    /\ trace[j].dequeued = 0

\* The number of terminal statuses among the statuses s.
RECURSIVE TerminalCount(_)
TerminalCount(s) ==
  IF s = <<>> THEN 0
  ELSE (IF Head(s) \in {"complete", "failed"} THEN 1 ELSE 0) + TerminalCount(Tail(s))

\* C16: when every awaited call eventually returns, every dequeued job
\* eventually persists a terminal status (again and again every job dequeued
\* so far has its terminal status); it persists at most one, and writes no
\* status after it.
C16_RunsToTerminal ==
  /\ []<>(\A j \in JobIds : trace[j].dequeued > 0 => TerminalPersisted(j))
  /\ [](\A j \in JobIds :
          /\ TerminalCount(Statuses(j)) <= 1
          /\ TerminalCount(Statuses(j)) = 1 => TerminalPersisted(j))

\* A dequeued job has persisted its one terminal status and processJob has
\* returned.
C16_Witness ==
  \E j \in JobIds :
    /\ trace[j].dequeued > 0 /\ trace[j].returned
    /\ TerminalCount(Statuses(j)) = 1 /\ TerminalPersisted(j)

\* C17: every enqueued job is dequeued exactly once: at any time it is either
\* waiting in the queue, once, or has been dequeued, once; and when no loop is
\* running every enqueued job has been dequeued and run to its end, also a job
\* enqueued while the loop was suspended in the last queued job's final write.
C17_ExactlyOnce ==
  \A j \in JobIds :
    LET waiting == Cardinality({i \in DOMAIN queue : queue[i].id = j}) IN
      /\ waiting + trace[j].dequeued = (IF j <= enqueued THEN 1 ELSE 0)
      /\ trace[j].dequeued = 0 => ~trace[j].returned /\ JobLog(j) = <<>>
      /\ ActiveLoops = {} /\ j <= enqueued => trace[j].dequeued = 1 /\ trace[j].returned

\* A job enqueued while the loop was suspended in the final write of the last
\* queued job has been dequeued, once, by that loop, and its processJob is
\* running.
C17_Witness ==
  \E j \in JobIds :
    /\ trace[j].finalStepAtEnqueue
    /\ trace[j].dequeued = 1
    /\ ~trace[j].startedLoop
    /\ \E k \in ActiveLoops : k # j /\ loop[k].job # None /\ loop[k].job[1].id = j

\* C18: a well-formed process request handled while a job for the same lecture
\* is executing (from the start of its handler to its reply) is answered
\* 409 ALREADY_PROCESSING and enqueues no job.
C18_Original ==
  \A r \in RequestIds :
    /\ requests[r].pc = "replied"
    /\ requests[r].executingAtStart
    /\ requests[r].executingAtFind
    /\ requests[r].executingAtReply
    /\ requests[r].code # "VALIDATION_ERROR"
    => /\ requests[r].statusCode = 409
       /\ requests[r].code = "ALREADY_PROCESSING"
       /\ requests[r].enqueuedJob = None

C20_StubDeterministic ==
  /\ \A a, b \in JobIds :
       trace[a].stubCall # None /\ trace[b].stubCall # None
       => trace[a].stubCall[1].result = trace[b].stubCall[1].result
  /\ \A a \in JobIds :
       trace[a].stubCall # None
       => LET ra == trace[a].stubCall[1].result
          IN  /\ ra.language = "en"
              /\ Len(ra.segments) = 3
              /\ ra.segments[1].text = StubSegmentText1
              /\ ra.segments[2].text = StubSegmentText2
              /\ ra.segments[3].text = StubSegmentText3

\* The stub was called twice with one audio reference and once with another.
C20_Witness ==
  \E a, b, c \in JobIds :
    /\ a # b
    /\ trace[a].stubCall # None /\ trace[b].stubCall # None /\ trace[c].stubCall # None
    /\ trace[a].stubCall[1].audioPath = trace[b].stubCall[1].audioPath
    /\ trace[a].stubCall[1].audioPath # trace[c].stubCall[1].audioPath

\* C21: the stub short notes hold exactly one bullet line per segment whose
\* trimmed text is non-empty, in segment order, each made of the trimmed text
\* followed by that segment's time-range citation; a segment whose trimmed
\* text is empty gives no line, so the texts "a", "", "b" give two bullets.
C21_ShortNotesBullets ==
  probe.notesShort # None =>
    LET segs == probe.transcript[1].segments
        lines == Split(probe.notesShort[1], "\n")
        bullets == SelectSeq(lines, LAMBDA line : StartsWith(line, <<"-", " ">>))
        kept == SelectSeq(segs, LAMBDA seg : Trim(seg.text) # <<>>)
    IN  /\ Len(bullets) = Len(kept)
        /\ \A k \in 1..Len(kept) :
             bullets[k] = <<"-", " ">> \o Trim(kept[k].text) \o <<" ">>
                            \o formatTimeRange(kept[k].start, kept[k].end)
        /\ [i \in 1..Len(segs) |-> segs[i].text] = << <<"a">>, <<>>, <<"b">> >>
             => Len(bullets) = 2

\* The short notes of the texts "a", "", "b" have been generated and hold two
\* bullet lines.
C21_Witness ==
  /\ probe.notesShort # None
  /\ LET segs == probe.transcript[1].segments IN
       [i \in 1..Len(segs) |-> segs[i].text] = << <<"a">>, <<>>, <<"b">> >>
  /\ Len(SelectSeq(Split(probe.notesShort[1], "\n"),
                   LAMBDA line : StartsWith(line, <<"-", " ">>))) = 2

\* C22: the stub detailed notes of n segments hold exactly ceil(n/10)
\* sections; section k is headed by the range from the start of segment
\* 10(k-1)+1 to the end of segment min(10k, n) and holds the paragraphs of
\* exactly those segments (25 segments: 3 sections, the third of 5 segments;
\* no segment: no section).
C22_DetailedNotesSections ==
  probe.notesDetailed # None =>
    LET segs == probe.transcript[1].segments
        n == Len(segs)
        lines == Split(probe.notesDetailed[1], "\n")
        heading == <<"#", "#", " ", "S", "e", "c", "t", "i", "o", "n", " ">>
        heads == SelectSeq([i \in 1..Len(lines) |-> i],
                           LAMBDA i : StartsWith(lines[i], heading))
        ceil == CHOOSE c \in 0..n : 10 * c >= n /\ 10 * (c - 1) < n
        paragraph(seg) ==
          Trim(seg.text) \o <<" ">> \o formatTimeRange(seg.start, seg.end)
    IN  /\ Len(heads) = ceil
        /\ n = 25 => Len(heads) = 3
        /\ n = 0 => Len(heads) = 0
        /\ \A k \in 1..Len(heads) :
             LET first == 10 * (k - 1) + 1
                 last == IF 10 * k < n THEN 10 * k ELSE n
                 until == IF k < Len(heads) THEN heads[k + 1] - 1 ELSE Len(lines)
                 body == SelectSeq(SubSeq(lines, heads[k] + 1, until),
                                   LAMBDA line : line # <<>>)
                 window == SelectSeq(SubSeq(segs, first, last),
                                     LAMBDA seg : Trim(seg.text) # <<>>)
             IN  /\ lines[heads[k]] =
                      heading \o NumToString(k) \o <<" ">>
                        \o formatTimeRange(segs[first].start, segs[last].end)
                 /\ body = [i \in 1..Len(window) |-> paragraph(window[i])]
                 /\ n = 25 /\ k = 3 => last - first + 1 = 5

\* The detailed notes of 25 segments, none of them empty, have been generated:
\* three headings, the third followed by five paragraphs.
C22_Witness ==
  /\ probe.notesDetailed # None
  /\ LET segs == probe.transcript[1].segments
         lines == Split(probe.notesDetailed[1], "\n")
         heading == <<"#", "#", " ", "S", "e", "c", "t", "i", "o", "n", " ">>
         heads == SelectSeq([i \in 1..Len(lines) |-> i],
                            LAMBDA i : StartsWith(lines[i], heading))
     IN  /\ Len(segs) = 25
         /\ \A i \in 1..Len(segs) : Trim(segs[i].text) # <<>>
         /\ Len(heads) = 3
         /\ Len(SelectSeq(SubSeq(lines, heads[3] + 1, Len(lines)),
                          LAMBDA line : line # <<>>)) = 5

\* C23: after any status write the record's error message is non-null only if
\* its status is failed: the write of transcribing clears the message a failed
\* run left, and a job that ends complete leaves the message null.
C23_MessageOnlyWhenFailed ==
  /\ \A i \in DOMAIN log : log[i].errorMessage # None => log[i].status = "failed"
  /\ \A l \in LectureIds : lecture[l].errorMessage # None => lecture[l].status = "failed"
  /\ \A i \in DOMAIN log :
       log[i].status \in {"transcribing", "complete"} => log[i].errorMessage = None

\* A lecture whose first job failed with a message was run again: the second
\* job wrote transcribing with a null message and ended complete, no audio
\* synthesized, with the record's message null.
C23_Witness ==
  \E a, b \in JobIds :
    /\ a < b
    /\ TerminalPersisted(a) /\ LastEntry(a).status = "failed"
    /\ LastEntry(a).errorMessage # None
    /\ TerminalPersisted(b) /\ LastEntry(b).status = "complete"
    /\ LastEntry(b).lecture = LastEntry(a).lecture
    /\ JobLog(b)[1].status = "transcribing" /\ JobLog(b)[1].errorMessage = None
    /\ ~trace[b].ttsArtifact
    /\ lecture[LastEntry(b).lecture].status = "complete"
    /\ lecture[LastEntry(b).lecture].errorMessage = None

\* C24: once generation has succeeded, voiced is persisted before synthesis is
\* decided: the write of voiced carries the produced document paths, document
\* paths are written by no other write, the synthesis decision is taken only
\* when that write has landed, and complete is written only on a record that
\* reads voiced.
C24_VoicedBeforeSynthesis ==
  /\ [](\A j \in JobIds :
         /\ trace[j].generated /\ (\A k \in ActiveLoops : JobOf(k).id = j => loop[k].pc # "w_voiced")
              => \E i \in DOMAIN Statuses(j) : Statuses(j)[i] = "voiced"
         /\ trace[j].ttsInvoked => \E i \in DOMAIN Statuses(j) : Statuses(j)[i] = "voiced"
         /\ \A i \in DOMAIN Statuses(j) :
              Statuses(j)[i] = "complete" => i > 1 /\ Statuses(j)[i - 1] = "voiced")
  /\ [][/\ \A l \in LectureIds, f \in DOMAIN NoPaths :
            lecture'[l][f] # lecture[l][f] =>
              /\ lecture'[l].status = "voiced"
              /\ Len(log') = Len(log) + 1 /\ log'[Len(log')].status = "voiced"
        /\ Len(log') = Len(log) + 1 /\ log'[Len(log')].status = "voiced" =>
            \E k \in ActiveLoops :
              /\ loop[k].pc = "w_voiced" /\ JobOf(k).id = log'[Len(log')].job
              /\ ~trace[JobOf(k).id].ttsInvoked
              /\ \A f \in DOMAIN NoPaths :
                   loop[k].result[f] # None =>
                     lecture'[JobOf(k).lectureId][f] = loop[k].result[f]]_vars

\* Generation succeeded, synthesis is not run, and the record reads voiced with
\* a document path while the write of complete is pending.
C24_Witness ==
  \E k \in ActiveLoops :
    LET j == JobOf(k).id
        l == JobOf(k).lectureId
    IN  /\ loop[k].pc = "w_complete"
        /\ trace[j].generated /\ ~trace[j].ttsInvoked
        /\ lecture[l].status = "voiced"
        /\ \E f \in DOMAIN NoPaths : lecture[l][f] # None
        /\ Statuses(j) = <<"transcribing", "transcribed", "generating", "voiced">>

\* C25: the synthesis adapter is called for a job exactly when the narrated
\* script was requested, synthesis is enabled and generation produced a script
\* path; otherwise the write of complete is issued next, no synthesis step
\* runs and no audio path is recorded for the job.
C25_SynthesisIff ==
  /\ [][\A k \in JobIds :
          loop[k].pc = "w_voiced" /\ loop'[k].pc # "w_voiced" =>
            LET job == loop[k].job[1]
                all == /\ job.generateOptions.podcastScript
                       /\ job.ttsOptions.enabled
                       /\ loop[k].result.podcastScriptPath # None
            IN  /\ trace'[job.id].ttsInvoked = all
                /\ ~all => loop'[k].pc = "w_complete"
                /\ loop'[k].pc \in {"tts_read", "tts_fetch", "tts_save"} => all]_vars
  /\ [](\A k \in ActiveLoops :
          loop[k].pc \in {"tts_read", "tts_fetch", "tts_save", "w_complete_audio"}
            => trace[JobOf(k).id].ttsInvoked)
  /\ [](\A j \in JobIds :
          /\ trace[j].ttsArtifact => trace[j].ttsInvoked
          /\ trace[j].returned /\ trace[j].generated /\ ~trace[j].ttsInvoked
               => LastEntry(j).status = "complete")

\* The narrated script was requested and synthesis enabled, but generation
\* produced no script: the adapter was not called and the write of complete
\* is issued.
C25_Witness ==
  \E k \in ActiveLoops :
    LET job == JobOf(k) IN
      /\ loop[k].pc = "w_complete"
      /\ job.generateOptions.podcastScript /\ job.ttsOptions.enabled
      /\ loop[k].result.podcastScriptPath = None
      /\ trace[job.id].generated /\ ~trace[job.id].ttsInvoked
      /\ LastEntry(job.id).status = "voiced"

\* C26: the write of failed changes only the status, the error message and
\* the timestamp of the job's record: every artifact path on it is left as it
\* was, no other record changes, and no step ever removes a stored artifact.
C26_FailedWriteFrame ==
  [][/\ Len(log') = Len(log) + 1 /\ log'[Len(log')].status = "failed" =>
          LET l == log'[Len(log')].lecture IN
            /\ \A f \in DOMAIN lecture[l] \ {"status", "errorMessage", "updatedAt"} :
                 lecture'[l][f] = lecture[l][f]
            /\ lecture'[l].status = "failed"
            /\ lecture'[l].errorMessage = log'[Len(log')].errorMessage
            /\ \A m \in LectureIds \ {l} : lecture'[m] = lecture[m]
            /\ files' = files
     /\ \A p \in FilePaths : files[p] # None => files'[p] # None]_vars

\* Generation failed after the transcript was stored and a first document was
\* saved: the record reads failed, still holds both transcript paths, and the
\* transcript files and the saved document are still there.
C26_Witness ==
  \E j \in JobIds :
    /\ TerminalPersisted(j) /\ LastEntry(j).status = "failed"
    /\ trace[j].failedStage = "generation"
    /\ LET l == LastEntry(j).lecture IN
         /\ lecture[l].status = "failed"
         /\ lecture[l].transcriptJsonPath # None /\ lecture[l].transcriptTextPath # None
         /\ files[lecture[l].transcriptJsonPath[1]] # None
         /\ files[lecture[l].transcriptTextPath[1]] # None
         /\ \E f \in {"notes_short.md", "podcast_script.txt"} :
              files[OutputPath(CourseCodeOf(l), l, f)] # None
         /\ \A f \in DOMAIN NoPaths : lecture[l][f] = None

\* C27: a record whose status a job has set to transcribed, generating, voiced
\* or complete holds both transcript paths, and the transcript files exist;
\* a record set to voiced or complete holds the path of every document that
\* job's generation produced, and those files exist.
C27_PathsWithStatus ==
  \A l \in LectureIds :
    LET mine == SelectSeq(log, LAMBDA entry : entry.lecture = l) IN
      mine # <<>> =>
        LET j == mine[Len(mine)].job IN
          /\ lecture[l].status \in {"transcribed", "generating", "voiced", "complete"} =>
               /\ lecture[l].transcriptJsonPath # None
               /\ lecture[l].transcriptTextPath # None
               /\ files[lecture[l].transcriptJsonPath[1]] # None
               /\ files[lecture[l].transcriptTextPath[1]] # None
          /\ lecture[l].status \in {"voiced", "complete"} =>
               \A f \in DOMAIN NoPaths :
                 trace[j].produced[f] # None =>
                   /\ lecture[l][f] = trace[j].produced[f]
                   /\ files[lecture[l][f][1]] # None

\* A record reads complete after a generation that produced four documents:
\* it holds the two transcript paths and the four document paths.
C27_Witness ==
  \E l \in LectureIds :
    /\ lecture[l].status = "complete"
    /\ lecture[l].transcriptJsonPath # None /\ lecture[l].transcriptTextPath # None
    /\ \E j \in JobIds :
         /\ TerminalPersisted(j) /\ LastEntry(j).lecture = l
         /\ Cardinality({f \in DOMAIN NoPaths : trace[j].produced[f] # None}) = 4
         /\ \A f \in DOMAIN NoPaths :
              trace[j].produced[f] # None => lecture[l][f] = trace[j].produced[f]


\* C28: the is-draining flag is true exactly while a drain loop is active:
\* once the loop has ended, on an empty queue or because a status write threw
\* out of a job, the flag is false and no queued job is without a running loop.
C28_Original ==
  /\ processing <=> ActiveLoops # {}
  /\ queue # <<>> => ActiveLoops # {}

\* C29: with jobs submitted only through the process route, a lecture whose
\* status is complete keeps that status: no step of any interleaving of process
\* requests and drain-loop status writes rewrites it.
C29_Original ==
  [][\A l \in LectureIds : lecture[l].status = "complete" => lecture'[l].status = "complete"]_vars

\* GET /:lectureId/status: findUnique answers with the record as it is when the
\* query is served, and the handler replies with its status, message and
\* timestamp, or 404 when there is no such lecture.
StatusReply(lec, lectureId) ==
  IF lectureId \notin LectureIds
  THEN [statusCode |-> 404, code |-> "LECTURE_NOT_FOUND"]
  ELSE [statusCode |-> 200, status |-> lec[lectureId].status,
        errorMessage |-> lec[lectureId].errorMessage,
        updatedAt |-> lec[lectureId].updatedAt]

\* C30: when the process route acknowledges a request with status
\* 'transcribing', a status query served right after the reply does not return
\* the pre-submission status uploaded or failed, other jobs queued ahead or not.
C30_Original ==
  [][\A r \in RequestIds :
       /\ requests[r].pc = "found"
       /\ requests'[r].pc = "replied"
       /\ requests'[r].status = "transcribing"
       => StatusReply(lecture', requests'[r].lectureId[1]).status
            \notin {"uploaded", "failed"}]_vars

====
